---- MODULE Spec2Model ----
(***************************************************************************)
(* Quick Grafcet parser (src/qg_parser.py) over the data model of          *)
(* src/qg_sfc.py and the error collector of src/errors.py.                 *)
(*                                                                         *)
(* One behaviour is one call of QGParser.parse() on one document.  Init    *)
(* fixes the token stream the tokenizer hands to the parser; the actions   *)
(* are the iterations of the statement loop of _parse_file, the            *)
(* iterations of the leg loop of _parse_branch, the code of _parse_branch  *)
(* after its loop, and the phases of parse() that follow _parse_file.      *)
(*                                                                         *)
(* An exception other than ParseError that the code lets escape (a method  *)
(* a class of qg_sfc.py does not have, an index into an empty list, an     *)
(* attribute of None) ends the call: field exc of the parser state names   *)
(* it and the behaviour ends in pc = "done" with that outcome.             *)
(***************************************************************************)
EXTENDS Integers, Sequences, FiniteSets, TLC

(* ---------------------------------------------------------------------- *)
(* Bounds of the model                                                     *)
(* ---------------------------------------------------------------------- *)
MaxSeqItems == 3
MaxLegLen == 3
MaxFan == 3

(* ---------------------------------------------------------------------- *)
(* Values                                                                  *)
(* ---------------------------------------------------------------------- *)
\* Python None where a line number is expected
NoLine == -1
\* Python None where a name is expected (Token.value of tokens without one)
NoName == <<"", 0>>
\* Python None where a Step or Transition object is expected
NoneRef == [kind |-> "None", idx |-> 0]

StepRef(i) == [kind |-> "S", idx |-> i]
TransRef(i) == [kind |-> "T", idx |-> i]

Range(s) == {s[i] : i \in 1..Len(s)}
SeqsUpTo(S, n) == UNION {[1..k -> S] : k \in 0..n}

Tok(ty, val) == [type |-> ty, value |-> val]

(* ---------------------------------------------------------------------- *)
(* Documents.  A document is a sequence of items, each item one piece of   *)
(* source text; ItemTokens gives the tokens the tokenizer emits for it.    *)
(* The n-th step declaration of a document is named <<"s", n>> and the     *)
(* n-th transition declaration <<"t", n>>, except for the "dup" items,     *)
(* which repeat the name of the declaration before them.                   *)
(* ---------------------------------------------------------------------- *)
StepItems == {"SI", "S", "Sdup", "SI_noAt", "SI_noLp", "SI_noRp",
              "S_noAt", "S_noLp", "S_noRp"}
TransItems == {"T", "Tdup", "TJ1", "TJ2", "T_noAt", "T_noLp", "T_noRp"}
BadItems == {"SI_noAt", "SI_noLp", "SI_noRp", "S_noAt", "S_noLp", "S_noRp",
             "T_noAt", "T_noLp", "T_noRp"}
GoodItems == {"SI", "S", "Sdup", "T", "Tdup", "TJ1", "TJ2"}

\* name given to the declaration written by item it, the ns-th step
\* declaration or nt-th transition declaration of the document
ItemName(it, ns, nt) ==
  IF it \in StepItems
  THEN (IF it = "Sdup" THEN <<"s", ns - 1>> ELSE <<"s", ns>>)
  ELSE (IF it = "Tdup" THEN <<"t", nt - 1>> ELSE <<"t", nt>>)

ItemTokens(it, ns, nt) ==
  LET n == ItemName(it, ns, nt)
      kw == IF it \in {"SI", "SI_noAt", "SI_noLp", "SI_noRp"} THEN "SI"
            ELSE IF it \in StepItems THEN "S" ELSE "T"
      body == IF it \in StepItems THEN "ACTION" ELSE "CONDITION"
  IN CASE it \in {"SI", "S", "Sdup", "T", "Tdup"} ->
            \* S@name()
            <<Tok(kw, NoName), Tok("AT", NoName), Tok("NAME", n),
              Tok("LPAREN", NoName), Tok(body, NoName), Tok("RPAREN", NoName)>>
       [] it \in {"TJ1", "TJ2"} ->
            \* T@name() >> @target
            <<Tok(kw, NoName), Tok("AT", NoName), Tok("NAME", n),
              Tok("LPAREN", NoName), Tok(body, NoName), Tok("RPAREN", NoName),
              Tok("JUMP", NoName), Tok("AT", NoName),
              Tok("NAME", <<"s", IF it = "TJ1" THEN 1 ELSE 2>>)>>
       [] it \in {"SI_noAt", "S_noAt", "T_noAt"} ->
            \* S name()   : no capture after '(' , the state is not AFTER_NAME
            <<Tok(kw, NoName), Tok("NAME", n),
              Tok("LPAREN", NoName), Tok("RPAREN", NoName)>>
       [] it \in {"SI_noLp", "S_noLp", "T_noLp"} ->
            \* S@name)
            <<Tok(kw, NoName), Tok("AT", NoName), Tok("NAME", n),
              Tok("RPAREN", NoName)>>
       [] it \in {"SI_noRp", "S_noRp", "T_noRp"} ->
            \* S@name(    : the capture stops at the end of the line
            <<Tok(kw, NoName), Tok("AT", NoName), Tok("NAME", n),
              Tok("LPAREN", NoName), Tok(body, NoName)>>
       [] it = "NL" -> <<Tok("NEWLINE", NoName)>>
       [] it = "END" -> <<Tok("END", NoName)>>
       [] it = "ORD" -> <<Tok("OR_DIVERGE", NoName)>>
       [] it = "ORC" -> <<Tok("OR_CONVERGE", NoName)>>
       [] it = "ANDD" -> <<Tok("AND_DIVERGE", NoName)>>
       [] it = "ANDC" -> <<Tok("AND_CONVERGE", NoName)>>
       [] it = "SEP" -> <<Tok("LEG_SEPARATOR", NoName)>>
       [] it = "ARROW" -> <<Tok("ARROW", NoName)>>

\* Token(type, value, line_number) for each token of one item
WithLine(toks, line) ==
  [i \in 1..Len(toks) |->
     [type |-> toks[i].type, value |-> toks[i].value, line_number |-> line]]

\* The tokenizer's scan: tokens carry the line counter, a newline token is
\* emitted before the counter is incremented, EOF is appended at the end.
RECURSIVE Tokenize(_, _, _, _)
Tokenize(items, ns, nt, line) ==
  IF items = <<>>
  THEN <<[type |-> "EOF", value |-> NoName, line_number |-> line]>>
  ELSE LET it == Head(items)
           ns1 == IF it \in StepItems THEN ns + 1 ELSE ns
           nt1 == IF it \in TransItems THEN nt + 1 ELSE nt
       IN WithLine(ItemTokens(it, ns1, nt1), line)
            \o Tokenize(Tail(items), ns1, nt1,
                        IF it = "NL" THEN line + 1 ELSE line)


(* ---------------------------------------------------------------------- *)
(* State of one QGParser instance                                          *)
(* ---------------------------------------------------------------------- *)
VARIABLES
  tokens,               \* self.tokens
  current,              \* self.current, 1-based here
  steps,                \* self.steps
  transitions,          \* self.transitions
  branches,             \* self.branches
  errors,               \* self.errors.errors
  current_step,         \* self.current_step
  last_parsed_element,  \* self.last_parsed_element
  inside_branch,        \* self.inside_branch
  after_convergence,    \* self.after_convergence
  global_id_counter,    \* self.global_id_counter
  diverge_branch,       \* local diverge_branch of a running _parse_branch
  pc,                   \* position inside parse()
  outcome,              \* how parse() ended
  reported,             \* the errors listed by the ParseError raised
  export_pc,            \* position inside L5XExporter.to_string()
  validator_errors,     \* L5XValidator.errors
  _global_id,           \* IDManager._global_id
  sfc_content,          \* the Branch elements emitted into SFCContent
  _directed_links,      \* L5XBuilder._directed_links
  tokenizer             \* one QGTokenizer instance and its loop variable state

vars == <<tokens, current, steps, transitions, branches, errors, current_step,
          last_parsed_element, inside_branch, after_convergence,
          global_id_counter, diverge_branch, pc, outcome, reported,
          export_pc, validator_errors, _global_id, sfc_content,
          _directed_links, tokenizer>>

\* the variables of the parser and of the exporter
ParserVars == <<tokens, current, steps, transitions, branches, errors,
                current_step, last_parsed_element, inside_branch,
                after_convergence, global_id_counter, diverge_branch, pc,
                outcome, reported, export_pc, validator_errors, _global_id,
                sfc_content, _directed_links>>

\* the tokenizer of a document whose tokens are given, which has returned
NoTokenizer == [content |-> <<>>, pos |-> 1, line_number |-> 1,
                tokens |-> <<>>, state |-> "NORMAL", outcome |-> "returned"]

NoBranch == [id |-> -1, branch_type |-> "None", flow_type |-> "None",
             line_number |-> NoLine, root |-> NoneRef, legs |-> <<>>]

\* the mutable fields of the parser, as one value the methods transform
Self == [current |-> current, steps |-> steps, transitions |-> transitions,
         branches |-> branches, errors |-> errors,
         current_step |-> current_step,
         last_parsed_element |-> last_parsed_element,
         inside_branch |-> inside_branch,
         after_convergence |-> after_convergence,
         global_id_counter |-> global_id_counter,
         diverge_branch |-> diverge_branch,
         exc |-> ""]

Raise(st, e) == IF st.exc # "" THEN st ELSE [st EXCEPT !.exc = e]

(* ---------------------------------------------------------------------- *)
(* Token navigation helpers                                                *)
(* ---------------------------------------------------------------------- *)
_at_end(c) == c > Len(tokens) \/ tokens[c].type = "EOF"

_check(c, token_type) == ~_at_end(c) /\ tokens[c].type = token_type

_advance(st) == IF _at_end(st.current) THEN st
                ELSE [st EXCEPT !.current = @ + 1]

RECURSIVE SkipFrom(_)
SkipFrom(c) == IF _check(c, "NEWLINE") THEN SkipFrom(c + 1) ELSE c

_skip_newlines(st) == [st EXCEPT !.current = SkipFrom(@)]

\* self._current_token().line_number if self._current_token() else line_number
LineOr(c, line_number) ==
  IF _at_end(c) THEN line_number ELSE tokens[c].line_number

_record_error(st, message, arg, line_number) ==
  [st EXCEPT !.errors = Append(@, [message |-> message, arg |-> arg,
                                   line_number |-> line_number])]

\* the failing branch of _expect: record the error, do not advance
ExpectFailed(st, token_type) ==
  _record_error(st, "Expected token", <<token_type, 0>>,
                LineOr(st.current, tokens[Len(tokens)].line_number))

\* a counter that leaves every other identity out
SkipId(st) == [st EXCEPT !.global_id_counter = @ + 2]

_next_id(st) == [st EXCEPT !.global_id_counter = @ + 1]

(* ---------------------------------------------------------------------- *)
(* Data model: the adders of QGStep deduplicate, those of QGTransition     *)
(* append; an object has only the adders of its own class.                 *)
(* ---------------------------------------------------------------------- *)
AddIfAbsent(list, x) == IF x \in Range(list) THEN list ELSE Append(list, x)

MethodsOf(kind) ==
  CASE kind = "S" -> {"add_incoming_transition", "add_outgoing_transition"}
    [] kind = "T" -> {"add_incoming_step", "add_outgoing_step"}
    [] OTHER -> {}

\* obj.method(arg) on an object already stored in steps or transitions
Call(st, obj, method, arg) ==
  IF st.exc # "" THEN st
  ELSE IF method \notin MethodsOf(obj.kind) THEN Raise(st, "AttributeError")
  ELSE CASE method = "add_incoming_transition" ->
              [st EXCEPT !.steps[obj.idx].incoming_transitions =
                             AddIfAbsent(@, arg)]
         [] method = "add_outgoing_transition" ->
              [st EXCEPT !.steps[obj.idx].outgoing_transitions =
                             AddIfAbsent(@, arg)]
         [] method = "add_incoming_step" ->
              [st EXCEPT !.transitions[obj.idx].incoming_steps =
                             Append(@, arg)]
         [] method = "add_outgoing_step" ->
              [st EXCEPT !.transitions[obj.idx].outgoing_steps =
                             Append(@, arg)]

\* name in self.name_to_step : the dict gets an entry for every appended step
InNameToStep(stepList, name) ==
  \E i \in 1..Len(stepList) : stepList[i].name = name

InNameToTransition(transList, name) ==
  \E i \in 1..Len(transList) : transList[i].name = name

\* self.name_to_step.get(name): a later step of the same name overwrites
NameToStep(stepList, name) ==
  IF InNameToStep(stepList, name)
  THEN StepRef(CHOOSE i \in 1..Len(stepList) :
                 /\ stepList[i].name = name
                 /\ \A j \in 1..Len(stepList) :
                       stepList[j].name = name => j <= i)
  ELSE NoneRef

(* ---------------------------------------------------------------------- *)
(* _parse_step.  Each operator is the method from one statement on; its    *)
(* parameters are the parser state reached and the locals set so far.      *)
(* ---------------------------------------------------------------------- *)
\* a parser that never links a new step to the element parsed before it
StepIsNeverLinked(st) == FALSE

\* the sequential link of a new step to the element parsed before it
StepIsLinked(st) ==
  /\ st.last_parsed_element # NoneRef
  /\ ~st.inside_branch
  /\ ~st.after_convergence

\* steps.append(step), name_to_step, current_step, last_parsed_element
AppendStep(st, step) ==
  IF st.exc # "" THEN st
  ELSE [st EXCEPT !.steps = Append(@, step),
                  !.current_step = StepRef(Len(st.steps) + 1),
                  !.last_parsed_element = StepRef(Len(st.steps) + 1)]

\* from "Create step object" to the end of _parse_step
CreateStep(st, name, line_number) ==
  AppendStep(
    IF StepIsLinked(st)
    THEN Call(_next_id(st), st.last_parsed_element, "add_outgoing_step",
              StepRef(Len(st.steps) + 1))
    ELSE _next_id(st),
    [name |-> name,
     id |-> st.global_id_counter,
     operand |-> Len(st.steps),
     is_initial |-> FALSE,
     line_number |-> line_number,
     incoming_transitions |->
         IF StepIsLinked(st) THEN <<st.last_parsed_element>> ELSE <<>>,
     outgoing_transitions |-> <<>>])

\* _parse_number after the comma; the value of the preset is not kept
_parse_number(st) ==
  IF _check(st.current, "NUMBER") THEN _advance(st)
  ELSE IF _at_end(st.current) THEN Raise(st, "AttributeError")
  ELSE _record_error(st, "Expected number", NoName,
                     tokens[st.current].line_number)

\* "Check for optional preset"
ParsePreset(st) ==
  IF _check(st.current, "COMMA") THEN _parse_number(_advance(st)) ELSE st

\* "Expect ACTION or COMMENT token": the tokenizer emits no COMMENT token
ParseAction(st) ==
  IF _check(st.current, "ACTION") THEN _advance(st) ELSE st

\* "Expect )" and what follows
ParseStepClose(st, name, line_number) ==
  IF st.exc # "" THEN st
  ELSE IF ~_check(st.current, "RPAREN") THEN ExpectFailed(st, "RPAREN")
  ELSE CreateStep(_advance(st), name, line_number)

\* "Expect (" and what follows
ParseStepBody(st, name, line_number) ==
  IF ~_check(st.current, "LPAREN") THEN ExpectFailed(st, "LPAREN")
  ELSE ParseStepClose(ParsePreset(ParseAction(_advance(st))), name,
                      line_number)

\* "Check for duplicate names" and what follows
ParseStepDuplicate(st, name, line_number) ==
  ParseStepBody(IF InNameToStep(st.steps, name)
                THEN _record_error(st, "Duplicate step name", name,
                                   line_number)
                ELSE st,
                name, line_number)

\* "Expect NAME token" and what follows
ParseStepName(st, line_number) ==
  IF _check(st.current, "NAME")
  THEN ParseStepDuplicate(_advance(st), tokens[st.current].value,
                          line_number)
  ELSE ParseStepDuplicate(
         _record_error(st, "Expected name after @", NoName,
                       LineOr(st.current, line_number)),
         <<"unnamed_s", Len(st.steps)>>, line_number)

\* "Expect @ symbol" and what follows
ParseStepAt(st, line_number) ==
  IF ~_check(st.current, "AT") THEN ExpectFailed(st, "AT")
  ELSE ParseStepName(_advance(st), line_number)

_parse_step(st) == ParseStepAt(_advance(st), tokens[st.current].line_number)

(* ---------------------------------------------------------------------- *)
(* _parse_initial_step                                                     *)
(* ---------------------------------------------------------------------- *)
\* self.last_parsed_element.is_initial = True
SetInitialFlag(st) ==
  IF st.exc # "" THEN st
  ELSE CASE st.last_parsed_element.kind = "S" ->
              [st EXCEPT !.steps[st.last_parsed_element.idx].is_initial =
                            TRUE]
         [] st.last_parsed_element.kind = "T" ->
              [st EXCEPT
                 !.transitions[st.last_parsed_element.idx].is_initial = TRUE]
         [] OTHER -> Raise(st, "AttributeError")

\* "Check if SI already parsed"
CheckSingleInitial(st) ==
  IF \E i \in 1..Len(st.steps) : st.steps[i].is_initial
  THEN _record_error(st, "Only one SI allowed", NoName,
                     tokens[st.current].line_number)
  ELSE st

_parse_initial_step(st) == SetInitialFlag(_parse_step(CheckSingleInitial(st)))

(* ---------------------------------------------------------------------- *)
(* _parse_transition                                                       *)
(* ---------------------------------------------------------------------- *)
TransitionIsLinked(st) ==
  /\ st.current_step # NoneRef
  /\ ~st.inside_branch
  /\ ~st.after_convergence

\* a link to the current step that leaves after_convergence as it is
LinkTransitionKeepFlag(st) ==
  IF TransitionIsLinked(st)
  THEN Call(Call(st, TransRef(Len(st.transitions)), "add_incoming_step",
                 st.current_step),
            st.current_step, "add_outgoing_transition",
            TransRef(Len(st.transitions)))
  ELSE st

\* "Link transition to current step" and the reset of after_convergence;
\* the new transition is the last of st.transitions
LinkTransition(st) ==
  IF TransitionIsLinked(st)
  THEN [Call(Call(st, TransRef(Len(st.transitions)), "add_incoming_step",
                  st.current_step),
             st.current_step, "add_outgoing_transition",
             TransRef(Len(st.transitions)))
          EXCEPT !.after_convergence = FALSE]
  ELSE [st EXCEPT !.after_convergence = FALSE]

\* a transition whose operand is drawn from the global counter
CreateTransitionIdOperand(st, name, target_name, line_number) ==
  LinkTransition(
    [_next_id(st) EXCEPT
       !.transitions = Append(@, [name |-> name,
                                  id |-> st.global_id_counter,
                                  operand |-> st.global_id_counter,
                                  target_name |-> target_name,
                                  line_number |-> line_number,
                                  is_initial |-> FALSE,
                                  incoming_steps |-> <<>>,
                                  outgoing_steps |-> <<>>]),
       !.last_parsed_element = TransRef(Len(st.transitions) + 1)])

\* from "Create transition object" to the end of _parse_transition
CreateTransition(st, name, target_name, line_number) ==
  LinkTransition(
    [_next_id(st) EXCEPT
       !.transitions = Append(@, [name |-> name,
                                  id |-> st.global_id_counter,
                                  operand |-> Len(st.transitions),
                                  target_name |-> target_name,
                                  line_number |-> line_number,
                                  is_initial |-> FALSE,
                                  incoming_steps |-> <<>>,
                                  outgoing_steps |-> <<>>]),
       !.last_parsed_element = TransRef(Len(st.transitions) + 1)])

\* "Expect target NAME"
ParseJumpName(st, name, line_number) ==
  IF _check(st.current, "NAME")
  THEN CreateTransition(_advance(st), name, tokens[st.current].value,
                        line_number)
  ELSE CreateTransition(
         _record_error(st, "Expected step name after >> @", NoName,
                       LineOr(st.current, line_number)),
         name, NoName, line_number)

\* after ">>": "Expect @ symbol"
ParseJumpAt(st, name, line_number) ==
  IF ~_check(st.current, "AT") THEN ExpectFailed(st, "AT")
  ELSE ParseJumpName(_advance(st), name, line_number)

\* "Check for optional >> jump operator"
ParseJumpTarget(st, name, line_number) ==
  IF _check(st.current, "JUMP")
  THEN ParseJumpAt(_advance(st), name, line_number)
  ELSE CreateTransition(st, name, NoName, line_number)

\* "Expect )" and what follows
ParseTransitionClose(st, name, line_number) ==
  IF ~_check(st.current, "RPAREN") THEN ExpectFailed(st, "RPAREN")
  ELSE ParseJumpTarget(_advance(st), name, line_number)

\* "Expect CONDITION token" and what follows
ParseCondition(st, name, line_number) ==
  ParseTransitionClose(
    IF _check(st.current, "CONDITION") THEN _advance(st)
    ELSE _record_error(st, "Expected CONDITION", NoName,
                       LineOr(st.current, line_number)),
    name, line_number)

\* "Expect (" and what follows
ParseTransitionBody(st, name, line_number) ==
  IF ~_check(st.current, "LPAREN") THEN ExpectFailed(st, "LPAREN")
  ELSE ParseCondition(_advance(st), name, line_number)

\* "Check for duplicate names" and what follows
ParseTransitionDuplicate(st, name, line_number) ==
  ParseTransitionBody(IF InNameToTransition(st.transitions, name)
                      THEN _record_error(st, "Duplicate transition name",
                                         name, line_number)
                      ELSE st,
                      name, line_number)

\* "Expect NAME token" and what follows
ParseTransitionName(st, line_number) ==
  IF _check(st.current, "NAME")
  THEN ParseTransitionDuplicate(_advance(st), tokens[st.current].value,
                                line_number)
  ELSE ParseTransitionDuplicate(
         _record_error(st, "Expected name after @", NoName,
                       LineOr(st.current, line_number)),
         <<"unnamed_t", Len(st.transitions)>>, line_number)

\* "Expect @ symbol" and what follows
ParseTransitionAt(st, line_number) ==
  IF ~_check(st.current, "AT") THEN ExpectFailed(st, "AT")
  ELSE ParseTransitionName(_advance(st), line_number)

\* "Check if transition appears before any step"
CheckStepBefore(st) ==
  IF st.current_step = NoneRef /\ ~st.inside_branch
  THEN _record_error(st, "Transition before any step", NoName,
                     tokens[st.current].line_number)
  ELSE st

_parse_transition(st) ==
  ParseTransitionAt(_advance(CheckStepBefore(st)),
                    tokens[st.current].line_number)

(* ---------------------------------------------------------------------- *)
(* Legs and branches                                                       *)
(* ---------------------------------------------------------------------- *)
\* QLeg(): oid names the object, the k-th leg made by the branch with id b
QLeg(b, k) == [oid |-> <<b, k>>, steps |-> <<>>, transitions |-> <<>>]

LineOf(st, e) == IF e.kind = "S" THEN st.steps[e.idx].line_number
                 ELSE st.transitions[e.idx].line_number

\* QLeg.elements
Elements(leg) == leg.steps \o leg.transitions

\* sorted() is stable: x goes behind every element whose key is <= its key
InsertByLine(st, sorted, x) ==
  SubSeq(sorted, 1,
         Cardinality({i \in 1..Len(sorted) :
                         LineOf(st, sorted[i]) <= LineOf(st, x)}))
    \o <<x>>
    \o SubSeq(sorted,
              Cardinality({i \in 1..Len(sorted) :
                              LineOf(st, sorted[i]) <= LineOf(st, x)}) + 1,
              Len(sorted))

RECURSIVE SortByLine(_, _, _)
SortByLine(st, sorted, rest) ==
  IF rest = <<>> THEN sorted
  ELSE SortByLine(st, InsertByLine(st, sorted, Head(rest)), Tail(rest))

\* QLeg.elements_sorted_by_line_number
elements_sorted_by_line_number(st, leg) ==
  SortByLine(st, <<>>, Elements(leg))

Last(s) == s[Len(s)]

\* the error _validate_or_divergence_structure records for one leg
OrLegError(st, leg) ==
  IF leg.transitions = <<>> THEN "OR leg must start with a transition"
  ELSE IF /\ leg.steps # <<>>
          /\ LineOf(st, leg.steps[1]) < LineOf(st, leg.transitions[1])
       THEN "OR leg must START with transition, not step"
       ELSE ""

\* line given to that error
OrLegErrorLine(st, branch, leg) ==
  IF leg.transitions = <<>> THEN branch.line_number
  ELSE LineOf(st, leg.steps[1])

\* the loop over the legs, from leg i on: the first error ends it
RECURSIVE ValidateOrLegs(_, _, _)
ValidateOrLegs(st, branch, i) ==
  IF i > Len(branch.legs) THEN st
  ELSE IF OrLegError(st, branch.legs[i]) # ""
  THEN _record_error(st, OrLegError(st, branch.legs[i]), <<"leg", i>>,
                     OrLegErrorLine(st, branch, branch.legs[i]))
  ELSE ValidateOrLegs(st, branch, i + 1)

_validate_or_divergence_structure(st, branch) == ValidateOrLegs(st, branch, 1)

\* first_line of _validate_and_divergence_structure, for a leg with steps
FirstLine(st, leg) ==
  IF /\ leg.transitions # <<>>
     /\ LineOf(st, leg.transitions[1]) < LineOf(st, leg.steps[1])
  THEN LineOf(st, leg.transitions[1])
  ELSE LineOf(st, leg.steps[1])

\* the error _validate_and_divergence_structure records for one leg
AndLegError(st, leg) ==
  IF leg.steps = <<>> THEN "AND leg must start with a step"
  ELSE IF /\ leg.transitions # <<>>
          /\ LineOf(st, leg.transitions[1]) = FirstLine(st, leg)
  THEN "AND leg must START with step, not transition"
  ELSE IF LineOf(st, Last(leg.steps))
            < (IF leg.transitions = <<>> THEN 0
               ELSE LineOf(st, Last(leg.transitions)))
  THEN "AND leg must END with step, not transition"
  ELSE ""

\* line given to that error
AndLegErrorLine(st, branch, leg) ==
  IF leg.steps = <<>> THEN branch.line_number
  ELSE IF /\ leg.transitions # <<>>
          /\ LineOf(st, leg.transitions[1]) = FirstLine(st, leg)
  THEN LineOf(st, leg.transitions[1])
  ELSE LineOf(st, Last(leg.steps))

RECURSIVE ValidateAndLegs(_, _, _)
ValidateAndLegs(st, branch, i) ==
  IF i > Len(branch.legs) THEN st
  ELSE IF AndLegError(st, branch.legs[i]) # ""
  THEN _record_error(st, AndLegError(st, branch.legs[i]), <<"leg", i>>,
                     AndLegErrorLine(st, branch, branch.legs[i]))
  ELSE ValidateAndLegs(st, branch, i + 1)

_validate_and_divergence_structure(st, branch) ==
  ValidateAndLegs(st, branch, 1)

\* has_jump of one leg
LegHasJump(st, leg) ==
  \E i \in 1..Len(leg.transitions) :
     st.transitions[leg.transitions[i].idx].target_name # NoName

_check_all_legs_have_jumps(st, branch) ==
  /\ branch.legs # <<>>
  /\ \A i \in 1..Len(branch.legs) :
        /\ branch.legs[i].transitions # <<>>
        /\ LegHasJump(st, branch.legs[i])

ConvergeToken(branch) ==
  IF branch.flow_type = "AND" THEN "AND_CONVERGE" ELSE "OR_CONVERGE"

\* "Create divergence branch" up to the leg loop; st is the parser after the
\* divergence operator and the newlines behind it
CreateDivergeBranch(st, flow_type, line_number) ==
  [_next_id(st) EXCEPT
     !.diverge_branch = [id |-> st.global_id_counter,
                         branch_type |-> "DIVERGE",
                         flow_type |-> flow_type,
                         line_number |-> line_number,
                         root |-> st.last_parsed_element,
                         legs |-> <<QLeg(st.global_id_counter, 1)>>],
     !.inside_branch = TRUE]

\* _parse_branch up to its leg loop; st.current is the divergence operator
BranchOpen(st) ==
  CreateDivergeBranch(_skip_newlines(_advance(st)),
                      IF _check(st.current, "AND_DIVERGE") THEN "AND"
                      ELSE "OR",
                      tokens[st.current].line_number)

\* current_leg.steps.append / current_leg.transitions.append: current_leg is
\* the last leg of diverge_branch
AppendToCurrentLeg(st, field, e) ==
  IF field = "steps"
  THEN [st EXCEPT !.diverge_branch.legs[Len(st.diverge_branch.legs)].steps =
                     Append(@, e)]
  ELSE [st EXCEPT
          !.diverge_branch.legs[Len(st.diverge_branch.legs)].transitions =
             Append(@, e)]

\* "Add newly created step to leg"; n is step_before_count
AddStepToLeg(st, n) ==
  IF st.exc = "" /\ Len(st.steps) > n
  THEN AppendToCurrentLeg(st, "steps", StepRef(Len(st.steps)))
  ELSE st

\* leg loop, branch self._check(TokenType.S)
LegStep(st) == AddStepToLeg(_parse_step(st), Len(st.steps))

\* "Set jump target on last transition in current leg"
SetLegJumpTarget(st, target_name) ==
  IF Last(st.diverge_branch.legs).transitions # <<>>
  THEN [st EXCEPT
          !.transitions[Last(Last(st.diverge_branch.legs).transitions).idx]
             .target_name = target_name]
  ELSE _record_error(st, "-> @ jump must follow a transition", NoName,
                     LineOr(st.current, st.diverge_branch.line_number))

\* after "-> @"
LegJumpName(st) ==
  IF _check(st.current, "NAME")
  THEN SetLegJumpTarget(_advance(st), tokens[st.current].value)
  ELSE _record_error(st, "Expected step name after -> @", NoName,
                     LineOr(st.current, st.diverge_branch.line_number))

\* "-> @target" and "-> S@name" after a transition of an OR leg; st is the
\* parser after the operator and the newlines behind it
LegArrow(st) ==
  IF _check(st.current, "AT") THEN LegJumpName(_advance(st))
  ELSE IF _check(st.current, "S") THEN LegStep(st)
  ELSE _record_error(st, "Expected S@name or @target after ->", NoName,
                     LineOr(st.current, st.diverge_branch.line_number))

\* "For OR branches, check for -> operator"
LegAfterTransition(st) ==
  IF st.diverge_branch.flow_type = "OR" /\ _check(st.current, "JUMP")
  THEN LegArrow(_skip_newlines(_advance(st)))
  ELSE st

\* "Add newly created transition to leg"; n is trans_before_count
AddTransitionToLeg(st, n) ==
  IF Len(st.transitions) > n
  THEN AppendToCurrentLeg(st, "transitions", TransRef(Len(st.transitions)))
  ELSE st

\* leg loop, branch self._check(TokenType.T)
LegTransition(st) ==
  LegAfterTransition(AddTransitionToLeg(_parse_transition(st),
                                        Len(st.transitions)))

(* ---------------------------------------------------------------------- *)
(* _parse_branch after its leg loop                                        *)
(* ---------------------------------------------------------------------- *)
\* a convergence that leaves the tail of a leg unlinked
ConvergeLinkNothing(st, leg, root) == st

\* "for leg in converge_branch.legs": link the tail of one leg to the root
ConvergeLinkLeg(st, leg, root) ==
  IF st.exc # "" THEN st
  ELSE IF st.diverge_branch.flow_type = "AND"
  THEN IF leg.steps = <<>> THEN Raise(st, "IndexError")
       ELSE Call(Call(st, Last(leg.steps), "add_outgoing_transition", root),
                 root, "add_incoming_step", Last(leg.steps))
  ELSE IF leg.transitions = <<>> THEN Raise(st, "IndexError")
       ELSE Call(Call(st, Last(leg.transitions), "add_outgoing_step", root),
                 root, "add_incoming_transition", Last(leg.transitions))

RECURSIVE ConvergeLinkLegs(_, _, _)
ConvergeLinkLegs(st, legs, root) ==
  IF legs = <<>> THEN st
  ELSE ConvergeLinkLegs(ConvergeLinkLeg(st, Head(legs), root), Tail(legs),
                        root)

\* lambda leg: not(leg.transitions[-1].target_name)
LegEndsWithoutJump(st, leg) ==
  st.transitions[Last(leg.transitions).idx].target_name = NoName

\* converge_branch.legs
RECURSIVE FilterLegs(_, _)
FilterLegs(st, legs) ==
  IF legs = <<>> THEN <<>>
  ELSE (IF LegEndsWithoutJump(st, Head(legs)) THEN <<Head(legs)>> ELSE <<>>)
         \o FilterLegs(st, Tail(legs))

ConvergeLegs(st) ==
  IF st.diverge_branch.flow_type = "AND" THEN st.diverge_branch.legs
  ELSE FilterLegs(st, st.diverge_branch.legs)

\* the element parsed after the convergence operator, if one was created;
\* ns and nt are step_before_count and trans_before_count
FollowingElement(st, ns, nt) ==
  IF Len(st.transitions) > nt THEN TransRef(Len(st.transitions))
  ELSE IF Len(st.steps) > ns THEN StepRef(Len(st.steps))
  ELSE NoneRef

\* "Link convergence to this step"
FollowingStep(st, ns) ==
  IF st.exc = "" /\ Len(st.steps) > ns
  THEN [st EXCEPT !.current_step = StepRef(Len(st.steps)),
                  !.after_convergence = FALSE]
  ELSE st

\* "Parse the element after convergence"
ParseFollowing(st) ==
  IF _check(st.current, "T") THEN _parse_transition(st)
  ELSE IF _check(st.current, "S")
  THEN FollowingStep(_parse_step(st), Len(st.steps))
  ELSE st

\* "Validate convergence follows IEC 61131-3 rules" and the two flags
CheckFollowing(st) ==
  [(IF st.diverge_branch.flow_type = "AND" /\ ~_check(st.current, "T")
    THEN _record_error(st,
           "AND convergence must be followed by a transition", NoName,
           LineOr(st.current, st.diverge_branch.line_number))
    ELSE IF st.diverge_branch.flow_type = "OR" /\ ~_check(st.current, "S")
    THEN _record_error(st, "OR convergence must be followed by a step",
                       NoName,
                       LineOr(st.current, st.diverge_branch.line_number))
    ELSE st)
   EXCEPT !.inside_branch = FALSE, !.after_convergence = TRUE]

\* self.branches.append(converge_branch)
AppendConverge(st, converge_branch) ==
  IF st.exc # "" THEN st
  ELSE [st EXCEPT !.branches = Append(@, converge_branch)]

\* the loop over converge_branch.legs and the append; st is the parser after
\* the element behind the operator
ConvergeLink(st, cid, cline, ns, nt) ==
  AppendConverge(
    ConvergeLinkLegs(st, ConvergeLegs(st), FollowingElement(st, ns, nt)),
    [id |-> cid,
     branch_type |-> "CONVERGE",
     flow_type |-> st.diverge_branch.flow_type,
     line_number |-> cline,
     root |-> FollowingElement(st, ns, nt),
     legs |-> ConvergeLegs(st)])

\* "Create convergence branch" and what follows; st is the parser after the
\* convergence operator and the newlines behind it
CreateConvergeBranch(st) ==
  IF /\ st.diverge_branch.flow_type = "OR"
     /\ \E i \in 1..Len(st.diverge_branch.legs) :
           st.diverge_branch.legs[i].transitions = <<>>
  THEN Raise(_next_id(st), "IndexError")
  ELSE ConvergeLink(ParseFollowing(CheckFollowing(_next_id(st))),
                    st.global_id_counter,
                    LineOr(st.current, st.diverge_branch.line_number),
                    Len(st.steps), Len(st.transitions))

\* the else branch of "if not self._check(converge_token)"
Converge(st) == CreateConvergeBranch(_skip_newlines(_advance(st)))

\* one pair of "adding links between elements of legs"
LinkPair(st, from_elem, to_elem) ==
  IF from_elem.kind = "S"
  THEN Call(Call(st, from_elem, "add_outgoing_transition", to_elem),
            to_elem, "add_incoming_step", from_elem)
  ELSE Call(Call(st, from_elem, "add_outgoing_step", to_elem),
            to_elem, "add_incoming_transition", from_elem)

\* "adding links between elements of legs"
RECURSIVE LinkLegElements(_, _, _)
LinkLegElements(st, es, i) ==
  IF i >= Len(es) \/ st.exc # "" THEN st
  ELSE LinkLegElements(LinkPair(st, es[i], es[i + 1]), es, i + 1)

\* a divergence that leaves the head of a leg unlinked
DivergeLinkNothing(st, leg) == st

\* "now we link references between legs and root"
DivergeLinkRoot(st, leg) ==
  IF st.exc # "" THEN st
  ELSE IF st.diverge_branch.flow_type = "AND"
  THEN IF leg.steps = <<>> THEN Raise(st, "IndexError")
       ELSE Call(Call(st, leg.steps[1], "add_incoming_transition",
                      st.diverge_branch.root),
                 st.diverge_branch.root, "add_outgoing_step", leg.steps[1])
  ELSE IF leg.transitions = <<>> THEN Raise(st, "IndexError")
       ELSE Call(Call(st, leg.transitions[1], "add_incoming_step",
                      st.diverge_branch.root),
                 st.diverge_branch.root, "add_outgoing_transition",
                 leg.transitions[1])

\* "for leg in diverge_branch.legs"
RECURSIVE DivergeLinkLegs(_, _)
DivergeLinkLegs(st, legs) ==
  IF legs = <<>> \/ st.exc # "" THEN st
  ELSE DivergeLinkLegs(
         DivergeLinkRoot(
           LinkLegElements(st,
                           elements_sorted_by_line_number(st, Head(legs)),
                           1),
           Head(legs)),
         Tail(legs))

\* the "if not self._check(converge_token)" branch; all_legs_jump was
\* computed before
MissingConvergence(st, all_legs_jump) ==
  IF st.diverge_branch.flow_type = "AND"
  THEN _record_error(st, "Expected convergence to close AND branch",
                     NoName,
                     LineOr(st.current, st.diverge_branch.line_number))
  ELSE IF ~all_legs_jump
  THEN _record_error(st, "Expected convergence to close OR branch",
                     NoName,
                     LineOr(st.current, st.diverge_branch.line_number))
  ELSE st

\* "Store divergence branch"
AppendDiverge(st) ==
  IF st.exc # "" THEN st
  ELSE [st EXCEPT !.branches = Append(@, st.diverge_branch),
                  !.diverge_branch = NoBranch]

\* "Expect convergence operator" and what follows
CloseBranch(st) ==
  AppendDiverge(
    DivergeLinkLegs(
      IF ~_check(st.current, ConvergeToken(st.diverge_branch))
      THEN MissingConvergence(
             [st EXCEPT !.inside_branch = FALSE],
             _check_all_legs_have_jumps(st, st.diverge_branch))
      ELSE Converge(st),
      st.diverge_branch.legs))

\* "Validate branch structure according to IEC 61131-3"
ValidateBranch(st) ==
  IF st.diverge_branch.flow_type = "AND"
  THEN _validate_and_divergence_structure(st, st.diverge_branch)
  ELSE _validate_or_divergence_structure(st, st.diverge_branch)

\* _parse_branch from "Validate branch structure" to its end
BranchClose(st) == CloseBranch(ValidateBranch(st))

(* ---------------------------------------------------------------------- *)
(* _handle_jumps, _validate, ErrorCollector.raise_if_errors                *)
(* ---------------------------------------------------------------------- *)
\* a jump that is noted at the transition only
ResolveJumpOneWay(st, i, target_step) ==
  IF st.transitions[i].target_name = NoName THEN st
  ELSE IF target_step = NoneRef
  THEN _record_error(st, "Invalid step reference: not found",
                     st.transitions[i].target_name,
                     st.transitions[i].line_number)
  ELSE Call(st, TransRef(i), "add_outgoing_step", target_step)

\* "Resolve to_step" of the i-th transition
ResolveJump(st, i, target_step) ==
  IF st.transitions[i].target_name = NoName THEN st
  ELSE IF target_step = NoneRef
  THEN _record_error(st, "Invalid step reference: not found",
                     st.transitions[i].target_name,
                     st.transitions[i].line_number)
  ELSE Call(Call(st, TransRef(i), "add_outgoing_step", target_step),
            target_step, "add_incoming_transition", TransRef(i))

RECURSIVE ResolveJumps(_, _)
ResolveJumps(st, i) ==
  IF i > Len(st.transitions) THEN st
  ELSE ResolveJumps(
         ResolveJump(st, i,
                     NameToStep(st.steps, st.transitions[i].target_name)),
         i + 1)

_handle_jumps(st) == ResolveJumps(st, 1)

CheckIncoming(st, i) ==
  IF st.transitions[i].incoming_steps = <<>>
  THEN _record_error(st, "Transition has no incoming step",
                     st.transitions[i].name, st.transitions[i].line_number)
  ELSE st

CheckOutgoing(st, i) ==
  IF st.transitions[i].outgoing_steps = <<>>
  THEN _record_error(st, "Transition has no outgoing step",
                     st.transitions[i].name, st.transitions[i].line_number)
  ELSE st

RECURSIVE ValidateTransitions(_, _)
ValidateTransitions(st, i) ==
  IF i > Len(st.transitions) THEN st
  ELSE ValidateTransitions(CheckOutgoing(CheckIncoming(st, i), i), i + 1)

\* "Check for initial step"
CheckInitialStep(st) ==
  IF ~\E i \in 1..Len(st.steps) : st.steps[i].is_initial
  THEN _record_error(st, "No initial step (SI) found", NoName, NoLine)
  ELSE st

_validate(st) == ValidateTransitions(CheckInitialStep(st), 1)

\* ErrorCollector.has_errors
has_errors(errs) == Len(errs) > 0

\* a sort key that forgets the first component: key=lambda e: e.line_number or 0
ErrorSortKeyLineOnly(e) ==
  <<0, IF e.line_number = NoLine THEN 0 ELSE e.line_number>>

\* key=lambda e: (e.line_number is None, e.line_number or 0)
ErrorSortKey(e) ==
  <<IF e.line_number = NoLine THEN 1 ELSE 0,
    IF e.line_number = NoLine THEN 0 ELSE e.line_number>>

KeyLeq(a, b) == a[1] < b[1] \/ (a[1] = b[1] /\ a[2] <= b[2])

\* the number of errors of sorted that stay before e
Before(sorted, e) ==
  Cardinality({i \in 1..Len(sorted) :
                  KeyLeq(ErrorSortKey(sorted[i]), ErrorSortKey(e))})

InsertError(sorted, e) ==
  SubSeq(sorted, 1, Before(sorted, e)) \o <<e>>
    \o SubSeq(sorted, Before(sorted, e) + 1, Len(sorted))

RECURSIVE SortErrors(_, _)
SortErrors(sorted, rest) ==
  IF rest = <<>> THEN sorted
  ELSE SortErrors(InsertError(sorted, Head(rest)), Tail(rest))

\* sorted_errors of raise_if_errors
sorted_errors(errs) == SortErrors(<<>>, errs)


(* ---------------------------------------------------------------------- *)
(* L5X export (src/L5X_exporter): the validator, the identities of the     *)
(* IDManager, and the junctions and links _build_branches_and_links makes  *)
(* from the adjacency lists.  The documents of the model declare steps     *)
(* with an empty action, for which no action identity is allocated; the    *)
(* layout gives the junctions their Y only and is left out.                *)
(* ---------------------------------------------------------------------- *)
\* QSFC(self.steps, self.transitions, self.branches, ...)
Sfc == [steps |-> steps, transitions |-> transitions, branches |-> branches]

ExportError(errs, message, arg) ==
  Append(errs, [message |-> message, arg |-> arg])

_check_initial_step(sfc, errs) ==
  IF ~\E i \in 1..Len(sfc.steps) : sfc.steps[i].is_initial
  THEN ExportError(errs, "No initial step (SI) found in SFC", NoName)
  ELSE errs

RECURSIVE _check_step_connectivity(_, _, _)
_check_step_connectivity(sfc, errs, i) ==
  IF i > Len(sfc.steps) THEN errs
  ELSE _check_step_connectivity(
         sfc,
         IF ~sfc.steps[i].is_initial
            /\ sfc.steps[i].incoming_transitions = <<>>
         THEN ExportError(errs, "Step has no incoming transitions",
                          sfc.steps[i].name)
         ELSE errs,
         i + 1)

\* one transition of _check_transition_connectivity: incoming, then outgoing
TransitionConnectivity(sfc, errs, i) ==
  IF sfc.transitions[i].incoming_steps = <<>>
  THEN IF sfc.transitions[i].outgoing_steps = <<>>
       THEN ExportError(ExportError(errs, "Transition has no incoming step",
                                    sfc.transitions[i].name),
                        "Transition has no outgoing step",
                        sfc.transitions[i].name)
       ELSE ExportError(errs, "Transition has no incoming step",
                        sfc.transitions[i].name)
  ELSE IF sfc.transitions[i].outgoing_steps = <<>>
       THEN ExportError(errs, "Transition has no outgoing step",
                        sfc.transitions[i].name)
       ELSE errs

RECURSIVE _check_transition_connectivity(_, _, _)
_check_transition_connectivity(sfc, errs, i) ==
  IF i > Len(sfc.transitions) THEN errs
  ELSE _check_transition_connectivity(
         sfc,
         TransitionConnectivity(sfc, errs, i),
         i + 1)

RECURSIVE _check_jump_targets(_, _, _)
_check_jump_targets(sfc, errs, i) ==
  IF i > Len(sfc.transitions) THEN errs
  ELSE _check_jump_targets(
         sfc,
         IF /\ sfc.transitions[i].target_name # NoName
            /\ ~InNameToStep(sfc.steps, sfc.transitions[i].target_name)
         THEN ExportError(errs, "Transition jumps to unknown step",
                          sfc.transitions[i].name)
         ELSE errs,
         i + 1)

RECURSIVE _check_branch_structure(_, _, _)
_check_branch_structure(sfc, errs, k) ==
  IF k > Len(sfc.branches) THEN errs
  ELSE _check_branch_structure(
         sfc,
         IF /\ sfc.branches[k].branch_type = "DIVERGE"
            /\ Len(sfc.branches[k].legs) < 2
         THEN ExportError(errs, "Branch has fewer than 2 legs",
                          <<"id", sfc.branches[k].id>>)
         ELSE errs,
         k + 1)

\* L5XValidator.validate: the errors it raises L5XExportError with
validate(sfc) ==
  _check_branch_structure(
    sfc,
    _check_jump_targets(
      sfc,
      _check_transition_connectivity(
        sfc,
        _check_step_connectivity(sfc, _check_initial_step(sfc, <<>>), 1),
        1),
      1),
    1)

\* _allocate_ids: the steps in order, then the transitions in order
get_step_id(sfc, s) == s.idx - 1

get_transition_id(sfc, t) == Len(sfc.steps) + t.idx - 1

\* the identity the IDManager gave an element of either kind
ElementId(sfc, e) ==
  IF e.kind = "S" THEN get_step_id(sfc, e) ELSE get_transition_id(sfc, e)

\* sorted(..., key=get_..._id): stable, x goes behind every element whose
\* identity is <= its identity
InsertById(sfc, sorted, x) ==
  SubSeq(sorted, 1,
         Cardinality({i \in 1..Len(sorted) :
                         ElementId(sfc, sorted[i]) <= ElementId(sfc, x)}))
    \o <<x>>
    \o SubSeq(sorted,
              Cardinality({i \in 1..Len(sorted) :
                              ElementId(sfc, sorted[i]) <= ElementId(sfc, x)})
                + 1,
              Len(sorted))

RECURSIVE SortById(_, _, _)
SortById(sfc, sorted, rest) ==
  IF rest = <<>> THEN sorted
  ELSE SortById(sfc, InsertById(sfc, sorted, Head(rest)), Tail(rest))

\* leg_map[x] of {x: next_id() for x in sorted}, the branch having taken
\* branch_id just before: an element that is twice in sorted keeps the
\* identity drawn for its last occurrence
LegMap(branch_id, sorted, x) ==
  branch_id + (CHOOSE i \in 1..Len(sorted) :
                 /\ sorted[i] = x
                 /\ \A j \in 1..Len(sorted) : sorted[j] = x => j <= i)

\* _emit_branch: one Branch element with its Leg children; owner and keys
\* are the key and the keys of leg_map in step_converge, step_diverge,
\* trans_converge or trans_diverge
Junction(branch_id, owner, branch_type, flow, sorted) ==
  [id |-> branch_id, owner |-> owner, branch_type |-> branch_type,
   flow |-> flow, keys |-> sorted,
   legs |-> [i \in 1..Len(sorted) |-> LegMap(branch_id, sorted, sorted[i])]]

\* branch_id = next_id(), one next_id() per neighbour, _emit_branch
EmitBranch(sfc, b, owner, branch_type, flow, neighbours) ==
  [b EXCEPT !.global_id = @ + 1 + Len(neighbours),
            !.sfc_content =
               Append(@, Junction(b.global_id, owner, branch_type, flow,
                                  SortById(sfc, <<>>, neighbours)))]

\* trans_to_qsfc_branch.get(e) and step_to_qsfc_branch.get(e): the last
\* DIVERGE branch with e in one of its legs, 0 for None
QsfcBranchOf(sfc, e) ==
  IF \E k \in 1..Len(sfc.branches) :
        /\ sfc.branches[k].branch_type = "DIVERGE"
        /\ \E l \in 1..Len(sfc.branches[k].legs) :
              e \in Range(Elements(sfc.branches[k].legs[l]))
  THEN CHOOSE k \in 1..Len(sfc.branches) :
         /\ sfc.branches[k].branch_type = "DIVERGE"
         /\ \E l \in 1..Len(sfc.branches[k].legs) :
               e \in Range(Elements(sfc.branches[k].legs[l]))
         /\ \A m \in 1..Len(sfc.branches) :
               (/\ sfc.branches[m].branch_type = "DIVERGE"
                /\ \E l \in 1..Len(sfc.branches[m].legs) :
                      e \in Range(Elements(sfc.branches[m].legs[l])))
               => m <= k
  ELSE 0

\* _determine_converge_type_trans and _determine_converge_type_step
_determine_converge_type(sfc, neighbours) ==
  IF /\ \A i \in 1..Len(neighbours) : QsfcBranchOf(sfc, neighbours[i]) # 0
     /\ Cardinality({QsfcBranchOf(sfc, neighbours[i]) :
                        i \in 1..Len(neighbours)}) = 1
     /\ sfc.branches[QsfcBranchOf(sfc, neighbours[1])].flow_type = "AND"
  THEN "Simultaneous"
  ELSE "Selection"

IsDivergeRoot(sfc, k, element) ==
  sfc.branches[k].branch_type = "DIVERGE" /\ sfc.branches[k].root = element

\* _determine_diverge_type_for: the first DIVERGE branch rooted at element
_determine_diverge_type_for(sfc, element) ==
  IF \E k \in 1..Len(sfc.branches) : IsDivergeRoot(sfc, k, element)
  THEN IF sfc.branches[CHOOSE k \in 1..Len(sfc.branches) :
                          /\ IsDivergeRoot(sfc, k, element)
                          /\ \A m \in 1..(k - 1) :
                                ~IsDivergeRoot(sfc, m, element)].flow_type
            = "AND"
       THEN "Simultaneous"
       ELSE "Selection"
  ELSE "Selection"

\* "Step-level Converge (step has multiple incoming transitions)"
RECURSIVE StepConverge(_, _, _)
StepConverge(sfc, b, i) ==
  IF i > Len(sfc.steps) THEN b
  ELSE StepConverge(
         sfc,
         IF Len(sfc.steps[i].incoming_transitions) <= 1 THEN b
         ELSE EmitBranch(sfc, b, StepRef(i),
                         _determine_converge_type(
                           sfc, sfc.steps[i].incoming_transitions),
                         "Converge", sfc.steps[i].incoming_transitions),
         i + 1)

\* "Step-level Diverge (step has multiple outgoing transitions)"
RECURSIVE StepDiverge(_, _, _)
StepDiverge(sfc, b, i) ==
  IF i > Len(sfc.steps) THEN b
  ELSE StepDiverge(
         sfc,
         IF Len(sfc.steps[i].outgoing_transitions) <= 1 THEN b
         ELSE EmitBranch(sfc, b, StepRef(i),
                         _determine_diverge_type_for(sfc, StepRef(i)),
                         "Diverge", sfc.steps[i].outgoing_transitions),
         i + 1)

\* "Transition-level Converge (trans has multiple incoming steps)"
RECURSIVE TransConverge(_, _, _)
TransConverge(sfc, b, j) ==
  IF j > Len(sfc.transitions) THEN b
  ELSE TransConverge(
         sfc,
         IF Len(sfc.transitions[j].incoming_steps) <= 1 THEN b
         ELSE EmitBranch(sfc, b, TransRef(j),
                         _determine_converge_type(
                           sfc, sfc.transitions[j].incoming_steps),
                         "Converge", sfc.transitions[j].incoming_steps),
         j + 1)

\* "Transition-level Diverge (trans has multiple outgoing steps)"
RECURSIVE TransDiverge(_, _, _)
TransDiverge(sfc, b, j) ==
  IF j > Len(sfc.transitions) THEN b
  ELSE TransDiverge(
         sfc,
         IF Len(sfc.transitions[j].outgoing_steps) <= 1 THEN b
         ELSE EmitBranch(sfc, b, TransRef(j),
                         _determine_diverge_type_for(sfc, TransRef(j)),
                         "Diverge", sfc.transitions[j].outgoing_steps),
         j + 1)

\* e in step_diverge, step_converge, trans_diverge or trans_converge
HasBranch(b, e, flow) ==
  \E k \in 1..Len(b.sfc_content) :
     b.sfc_content[k].owner = e /\ b.sfc_content[k].flow = flow

\* step_diverge[e], step_converge[e], trans_diverge[e] or trans_converge[e]
BranchFor(b, e, flow) ==
  b.sfc_content[CHOOSE k \in 1..Len(b.sfc_content) :
                   b.sfc_content[k].owner = e /\ b.sfc_content[k].flow = flow]

\* step_diverge[e][2][x] and its three likes
LegOf(b, e, flow, x) ==
  LegMap(BranchFor(b, e, flow).id, BranchFor(b, e, flow).keys, x)

\* a link that goes from element to element whatever junctions there are
LinkDirect(sfc, b, e, x) == <<ElementId(sfc, e), ElementId(sfc, x)>>

\* a link drawn against the direction of the edge
LinkReversed(sfc, b, e, x) == <<ElementId(sfc, x), ElementId(sfc, e)>>

\* the link made for one entry x of an adjacency list of e, e being its
\* source: "Step -> Transition connections", "Transition -> Step connections"
Link(sfc, b, e, x) ==
  IF HasBranch(b, e, "Diverge") /\ HasBranch(b, x, "Converge")
  THEN <<LegOf(b, e, "Diverge", x), LegOf(b, x, "Converge", e)>>
  ELSE IF HasBranch(b, e, "Diverge")
  THEN <<LegOf(b, e, "Diverge", x), ElementId(sfc, x)>>
  ELSE IF HasBranch(b, x, "Converge")
  THEN <<ElementId(sfc, e), LegOf(b, x, "Converge", e)>>
  ELSE <<ElementId(sfc, e), ElementId(sfc, x)>>

\* the inner loop over one adjacency list, from its k-th entry on
RECURSIVE LinksOf(_, _, _, _, _)
LinksOf(sfc, b, e, list, k) ==
  IF k > Len(list) THEN b
  ELSE LinksOf(sfc,
               [b EXCEPT !.directed_links = Append(@, Link(sfc, b, e, list[k]))],
               e, list, k + 1)

\* "Step -> Transition connections"
RECURSIVE StepLinks(_, _, _)
StepLinks(sfc, b, i) ==
  IF i > Len(sfc.steps) THEN b
  ELSE StepLinks(sfc,
                 LinksOf(sfc, b, StepRef(i),
                         sfc.steps[i].outgoing_transitions, 1),
                 i + 1)

\* "Transition -> Step connections"
RECURSIVE TransLinks(_, _, _)
TransLinks(sfc, b, j) ==
  IF j > Len(sfc.transitions) THEN b
  ELSE TransLinks(sfc,
                  LinksOf(sfc, b, TransRef(j),
                          sfc.transitions[j].outgoing_steps, 1),
                  j + 1)

\* "Source -> Diverge branch links" and "Converge branch -> Target links":
\* the dicts are walked in the order their branches were emitted
RECURSIVE BranchLinks(_, _, _, _, _)
BranchLinks(sfc, b, kind, flow, k) ==
  IF k > Len(b.sfc_content) THEN b
  ELSE BranchLinks(
         sfc,
         IF b.sfc_content[k].owner.kind = kind /\ b.sfc_content[k].flow = flow
         THEN [b EXCEPT !.directed_links =
                 Append(@, IF flow = "Diverge"
                           THEN <<ElementId(sfc, b.sfc_content[k].owner),
                                  b.sfc_content[k].id>>
                           ELSE <<b.sfc_content[k].id,
                                  ElementId(sfc, b.sfc_content[k].owner)>>)]
         ELSE b,
         kind, flow, k + 1)

\* the IDManager after _allocate_ids and the empty builder
NewBuilder(sfc) ==
  [global_id |-> Len(sfc.steps) + Len(sfc.transitions),
   sfc_content |-> <<>>,
   directed_links |-> <<>>]

\* the four loops that emit the branches
EmitBranches(sfc) ==
  TransDiverge(sfc,
    TransConverge(sfc,
      StepDiverge(sfc, StepConverge(sfc, NewBuilder(sfc), 1), 1), 1), 1)

_build_branches_and_links(sfc) ==
  BranchLinks(sfc,
    BranchLinks(sfc,
      BranchLinks(sfc,
        BranchLinks(sfc,
          TransLinks(sfc, StepLinks(sfc, EmitBranches(sfc), 1), 1),
          "S", "Diverge", 1),
        "T", "Diverge", 1),
      "S", "Converge", 1),
    "T", "Converge", 1)


(* ---------------------------------------------------------------------- *)
(* Documents of the model                                                  *)
(* ---------------------------------------------------------------------- *)
\* every item on a line of its own
RECURSIVE OnePerLine(_)
OnePerLine(d) ==
  IF d = <<>> THEN <<>> ELSE <<Head(d), "NL">> \o OnePerLine(Tail(d))

\* all items on one line
OneLine(d) == IF d = <<>> THEN <<>> ELSE d \o <<"NL">>

\* a stray leg separator outside of any branch
StrayItems == {"SEP"}

\* declarations only, one per line, at most one of them malformed or stray,
\* with or without the END marker
SeqDocs ==
  {OnePerLine(d) \o e :
     d \in {x \in SeqsUpTo(GoodItems \cup BadItems \cup StrayItems,
                           MaxSeqItems) :
              \A i, j \in 1..Len(x) :
                 x[i] \notin GoodItems /\ x[j] \notin GoodItems => i = j},
     e \in {<<>>, <<"END">>}}

LegItems == {"S", "T", "TJ1"}

\* the legs of one branch: a first leg of up to MaxLegLen elements, alone or
\* with a second leg of at most one element
LegLists ==
  {<<l>> : l \in SeqsUpTo(LegItems, MaxLegLen)}
    \cup {<<l, m>> : l \in SeqsUpTo(LegItems, MaxLegLen),
                     m \in {<<>>, <<"S">>, <<"T">>, <<"TJ1">>}}

RECURSIVE RenderLegs(_, _)
RenderLegs(ls, oneline) ==
  IF ls = <<>> THEN <<>>
  ELSE (IF oneline THEN OneLine(Head(ls)) ELSE OnePerLine(Head(ls)))
         \o (IF Len(ls) > 1 THEN <<"SEP", "NL">> ELSE <<>>)
         \o RenderLegs(Tail(ls), oneline)

\* what precedes the divergence operator
Heads == {<<"SI">>, <<"SI", "T">>}

\* how the document goes on after the legs: the END marker at once, the
\* convergence operator of the branch and one element (a step, a transition
\* or a transition that jumps back to the first step), the convergence
\* operator of the other flow, or nothing at all
Closings(flow) ==
  {<<"END">>,
   <<IF flow = "AND" THEN "ANDC" ELSE "ORC", "S", "NL", "END">>,
   <<IF flow = "AND" THEN "ANDC" ELSE "ORC", "T", "NL", "END">>,
   <<IF flow = "AND" THEN "ANDC" ELSE "ORC", "TJ1", "NL", "END">>,
   <<IF flow = "AND" THEN "ORC" ELSE "ANDC", "NL", "END">>,
   <<>>}

\* one branch: head, divergence operator, legs, closing
BranchDocs ==
  UNION {{OnePerLine(h) \o <<IF flow = "AND" THEN "ANDD" ELSE "ORD", "NL">>
            \o RenderLegs(ls, oneline) \o c :
            h \in Heads, ls \in LegLists, oneline \in BOOLEAN,
            c \in Closings(flow)} : flow \in {"AND", "OR"}}

\* an OR branch whose first leg is written with the arrow, T@a(..) -> S@b(..),
\* on one line or on several
ArrowDocs ==
  {<<"SI", "NL", "ORD", "NL">> \o RenderLegs(<<l, m>>, oneline) \o c :
     l \in {<<"T", "ARROW", "S">>, <<"T", "ARROW", "S", "T">>},
     m \in {<<"T">>, <<"TJ1">>},
     oneline \in BOOLEAN,
     c \in {<<"END">>, <<"ORC", "S", "NL", "END">>}}

\* one step and MaxFan transitions behind it, each with or without a jump
\* back to the step, with or without a second step behind them
FanDocs ==
  {OnePerLine(<<"SI">> \o j \o t) \o <<"END">> :
     j \in [1..MaxFan -> {"T", "TJ1"}], t \in {<<>>, <<"S">>}}

\* an AND branch whose root transition jumps back to the first step
JumpRootDocs ==
  {OnePerLine(<<"SI", "TJ1">>) \o <<"ANDD", "NL">> \o RenderLegs(ls, FALSE)
     \o <<"ANDC", "TJ1", "NL", "END">> :
     ls \in {<<<<"S">>, <<"S">>>>, <<<<"S", "T", "S">>, <<"S">>>>}}

\* a branch of two legs, its convergence, the element behind it and the
\* declarations that follow that element
TailDocs ==
  {OnePerLine(<<"SI", "T">>) \o <<"ANDD", "NL">> \o RenderLegs(ls, FALSE)
     \o <<"ANDC">> \o OnePerLine(<<r>> \o t) \o <<"END">> :
     ls \in {<<<<"S">>, <<"S">>>>, <<<<"S", "T", "S">>, <<"S">>>>},
     r \in {"T", "TJ1"},
     t \in {<<"S">>, <<"S", "TJ1">>, <<"T", "S">>}}
    \cup
  {OnePerLine(<<"SI">>) \o <<"ORD", "NL">> \o RenderLegs(ls, FALSE)
     \o <<"ORC">> \o OnePerLine(<<"S">> \o t) \o <<"END">> :
     ls \in {<<<<"T">>, <<"T">>>>, <<<<"T", "S", "T">>, <<"T">>>>,
             <<<<"TJ1">>, <<"T">>>>},
     t \in {<<"TJ1">>, <<"T", "S">>, <<"T", "S", "TJ1">>, <<"S">>}}

Docs ==
  SeqDocs \cup BranchDocs \cup ArrowDocs \cup FanDocs \cup JumpRootDocs
    \cup TailDocs

(* ---------------------------------------------------------------------- *)
(* parse()                                                                 *)
(* ---------------------------------------------------------------------- *)
Init ==
  /\ tokens \in {Tokenize(d, 0, 0, 1) : d \in Docs}
  /\ current = 1
  /\ steps = <<>>
  /\ transitions = <<>>
  /\ branches = <<>>
  /\ errors = <<>>
  /\ current_step = NoneRef
  /\ last_parsed_element = NoneRef
  /\ inside_branch = FALSE
  /\ after_convergence = FALSE
  /\ global_id_counter = 0
  /\ diverge_branch = NoBranch
  /\ pc = "file"
  /\ outcome = "running"
  /\ reported = <<>>
  /\ export_pc = "validate"
  /\ validator_errors = <<>>
  /\ _global_id = 0
  /\ sfc_content = <<>>
  /\ _directed_links = <<>>
  /\ tokenizer = NoTokenizer

\* store the parser state st and go on at position next; an escaping
\* exception ends parse()
Commit(st, next) ==
  /\ current' = st.current
  /\ steps' = st.steps
  /\ transitions' = st.transitions
  /\ branches' = st.branches
  /\ errors' = st.errors
  /\ current_step' = st.current_step
  /\ last_parsed_element' = st.last_parsed_element
  /\ inside_branch' = st.inside_branch
  /\ after_convergence' = st.after_convergence
  /\ global_id_counter' = st.global_id_counter
  /\ diverge_branch' = st.diverge_branch
  /\ pc' = IF st.exc # "" THEN "done" ELSE next
  /\ outcome' = IF st.exc # "" THEN st.exc ELSE outcome
  /\ UNCHANGED <<tokens, reported, export_pc, validator_errors, _global_id,
                 sfc_content, _directed_links, tokenizer>>

IsDiverge(c) == _check(c, "OR_DIVERGE") \/ _check(c, "AND_DIVERGE")

\* _parse_file, "Check if step is followed by divergence operator"
AfterStep(st) ==
  IF st.exc # "" THEN Commit(st, "file")
  ELSE IF IsDiverge(SkipFrom(st.current))
  THEN Commit(BranchOpen(_skip_newlines(st)), "branch")
  ELSE Commit(_skip_newlines(st), "file")

\* the parser at the statement the loop of _parse_file looks at
AtStatement == [Self EXCEPT !.current = SkipFrom(current)]

FileLoopRuns ==
  /\ pc = "file"
  /\ ~_at_end(SkipFrom(current))
  /\ ~_check(SkipFrom(current), "END")

StmtInitialStep ==
  /\ FileLoopRuns
  /\ _check(SkipFrom(current), "SI")
  /\ AfterStep(_parse_initial_step(AtStatement))

StmtStep ==
  /\ FileLoopRuns
  /\ _check(SkipFrom(current), "S")
  /\ AfterStep(_parse_step(AtStatement))

StmtTransition ==
  /\ FileLoopRuns
  /\ _check(SkipFrom(current), "T")
  /\ Commit(_parse_transition(AtStatement), "file")

StmtBranch ==
  /\ FileLoopRuns
  /\ IsDiverge(SkipFrom(current))
  /\ Commit(BranchOpen(AtStatement), "branch")

StmtLegSeparator ==
  /\ FileLoopRuns
  /\ _check(SkipFrom(current), "LEG_SEPARATOR")
  /\ Commit(_advance(AtStatement), "file")

\* the else branch: the tokenizer emits no HASH token, so every other token
\* is an unexpected one
StmtUnexpected ==
  /\ FileLoopRuns
  /\ tokens[SkipFrom(current)].type \notin
        {"SI", "S", "T", "OR_DIVERGE", "AND_DIVERGE", "LEG_SEPARATOR"}
  /\ Commit(_advance(_record_error(AtStatement, "Expected S, SI, T, or END",
                                   <<tokens[SkipFrom(current)].type, 0>>,
                                   tokens[SkipFrom(current)].line_number)),
            "file")

\* the end of _parse_file: "Check for END marker"
FileEnd ==
  /\ pc = "file"
  /\ ~FileLoopRuns
  /\ Commit(IF _check(SkipFrom(current), "END") THEN AtStatement
            ELSE _record_error(AtStatement, "Missing END marker", NoName,
                               IF Len(tokens) >= 2
                               THEN tokens[Len(tokens) - 1].line_number
                               ELSE 1),
            "jumps")

\* the leg loop of _parse_branch
LegLoopRuns ==
  /\ pc = "branch"
  /\ ~_at_end(current)
  /\ ~_check(current, ConvergeToken(diverge_branch))
  /\ ~_check(current, "END")
  /\ ~_check(SkipFrom(current), ConvergeToken(diverge_branch))
  /\ ~_check(SkipFrom(current), "END")

BranchLegSeparator ==
  /\ LegLoopRuns
  /\ _check(SkipFrom(current), "LEG_SEPARATOR")
  /\ Commit([_skip_newlines(_advance(AtStatement)) EXCEPT
               !.diverge_branch.legs =
                  Append(@, QLeg(diverge_branch.id,
                                 Len(diverge_branch.legs) + 1))],
            "branch")

BranchLegStep ==
  /\ LegLoopRuns
  /\ _check(SkipFrom(current), "S")
  /\ Commit(LegStep(AtStatement), "branch")

BranchLegTransition ==
  /\ LegLoopRuns
  /\ _check(SkipFrom(current), "T")
  /\ Commit(LegTransition(AtStatement), "branch")

\* the else branch: token.type.name fails when the newlines skipped end the
\* stream
BranchUnexpected ==
  /\ LegLoopRuns
  /\ ~_check(SkipFrom(current), "LEG_SEPARATOR")
  /\ ~_check(SkipFrom(current), "S")
  /\ ~_check(SkipFrom(current), "T")
  /\ Commit(IF _at_end(SkipFrom(current))
            THEN Raise(AtStatement, "AttributeError")
            ELSE _advance(_record_error(AtStatement,
                            "Unexpected token in branch",
                            <<tokens[SkipFrom(current)].type, 0>>,
                            tokens[SkipFrom(current)].line_number)),
            "branch")

\* the leg loop has ended: the rest of _parse_branch
BranchEnd ==
  /\ pc = "branch"
  /\ ~LegLoopRuns
  /\ Commit(BranchClose(IF /\ ~_at_end(current)
                           /\ ~_check(current, ConvergeToken(diverge_branch))
                           /\ ~_check(current, "END")
                        THEN AtStatement ELSE Self),
            "file")

\* a parse() whose phases are not guarded by has_errors()
PhaseAlwaysRuns(errs) == TRUE

\* a phase of parse() runs only while no error has been collected
PhaseRuns(errs) == ~has_errors(errs)

HandleJumps ==
  /\ pc = "jumps"
  /\ Commit(IF PhaseRuns(errors) THEN _handle_jumps(Self) ELSE Self,
            "validate")

Validate ==
  /\ pc = "validate"
  /\ Commit(IF PhaseRuns(errors) THEN _validate(Self) ELSE Self, "raise")

\* self.errors.raise_if_errors(), then return QSFC(...)
Finish ==
  /\ pc = "raise"
  /\ pc' = "done"
  /\ outcome' = IF has_errors(errors) THEN "ParseError" ELSE "returned"
  /\ reported' = sorted_errors(errors)
  /\ UNCHANGED <<tokens, current, steps, transitions, branches, errors,
                 current_step, last_parsed_element, inside_branch,
                 after_convergence, global_id_counter, diverge_branch,
                 export_pc, validator_errors, _global_id, sfc_content,
                 _directed_links, tokenizer>>

\* L5XExporter.to_string() on the graph parse() returned: validate()
ExportValidate ==
  /\ pc = "done"
  /\ outcome = "returned"
  /\ export_pc = "validate"
  /\ validator_errors' = validate(Sfc)
  /\ export_pc' = IF validate(Sfc) # <<>> THEN "L5XExportError" ELSE "build"
  /\ UNCHANGED <<tokens, current, steps, transitions, branches, errors,
                 current_step, last_parsed_element, inside_branch,
                 after_convergence, global_id_counter, diverge_branch, pc,
                 outcome, reported, _global_id, sfc_content, _directed_links,
                 tokenizer>>

\* _allocate_ids() and, inside _build_xml(), _build_branches_and_links()
ExportBuild ==
  /\ export_pc = "build"
  /\ export_pc' = "done"
  /\ _global_id' = _build_branches_and_links(Sfc).global_id
  /\ sfc_content' = _build_branches_and_links(Sfc).sfc_content
  /\ _directed_links' = _build_branches_and_links(Sfc).directed_links
  /\ UNCHANGED <<tokens, current, steps, transitions, branches, errors,
                 current_step, last_parsed_element, inside_branch,
                 after_convergence, global_id_counter, diverge_branch, pc,
                 outcome, reported, validator_errors, tokenizer>>

Next ==
  \/ StmtInitialStep
  \/ StmtStep
  \/ StmtTransition
  \/ StmtBranch
  \/ StmtLegSeparator
  \/ StmtUnexpected
  \/ FileEnd
  \/ BranchLegSeparator
  \/ BranchLegStep
  \/ BranchLegTransition
  \/ BranchUnexpected
  \/ BranchEnd
  \/ HandleJumps
  \/ Validate
  \/ Finish
  \/ ExportValidate
  \/ ExportBuild

Spec == Init /\ [][Next]_vars

(* ---------------------------------------------------------------------- *)
(* The tokenizer, character by character.  A text is a sequence of         *)
(* one-character strings; pos is 1-based here.  The texts drawn hold no    *)
(* '#', no operator character, no digit and no character outside the       *)
(* language, so the loop's cases for comments, operators, numbers and      *)
(* unexpected characters are never taken.                                  *)
(* ---------------------------------------------------------------------- *)
MaxBody == 4

\* the characters of the text that follows the '('
BodyChars == {"x", "(", ")", ",", " ", "\n"}

\* what the text holds before its '('
Prefixes ==
  {<<"S", "@", "a">>, <<"S", "I", "@", "a">>, <<"T", "@", "a">>,
   <<"@", "a">>, <<"S", " ", "a">>, <<>>, <<"S", "@", "a", " ", "T">>,
   <<"T", "@", "a", " ", "S", "@", "b">>, <<"S", "@", "a", " ", "T", "@", "b">>,
   <<"T", "@", "a", " ">>, <<"S", "@">>, <<"S", "@", "a", ",">>}

Contents ==
  {p \o <<"(">> \o b : p \in Prefixes, b \in SeqsUpTo(BodyChars, MaxBody)}

\* Python None where a character is expected
NoChar == ""

\* str.isalpha() and, there being no digit and no '_', str.isalnum()
Letters == {"S", "I", "T", "a", "b", "x"}

\* the characters str.strip() removes
Blank == {" ", "\t", "\r", "\n"}

NewTokenizer(content) ==
  [content |-> content, pos |-> 1, line_number |-> 1, tokens |-> <<>>,
   state |-> "NORMAL", outcome |-> "running"]

\* QGTokenizer._at_end
TkAtEnd(tk) == tk.pos > Len(tk.content)

_current_char(tk) == IF TkAtEnd(tk) THEN NoChar ELSE tk.content[tk.pos]

_peek_char(tk) ==
  IF tk.pos + 1 > Len(tk.content) THEN NoChar ELSE tk.content[tk.pos + 1]

\* QGTokenizer._advance, n times
TkAdvance(tk, n) == [tk EXCEPT !.pos = @ + n]

_emit_token(tk, token_type, value) ==
  [tk EXCEPT !.tokens = Append(@, [type |-> token_type, value |-> value,
                                   line_number |-> tk.line_number])]

_is_alphanumeric(char) == char # NoChar /\ char \in Letters

RECURSIVE _skip_whitespace_except_newline(_)
_skip_whitespace_except_newline(tk) ==
  IF ~TkAtEnd(tk) /\ _current_char(tk) \in {" ", "\t", "\r"}
  THEN _skip_whitespace_except_newline(TkAdvance(tk, 1))
  ELSE tk

\* the test of _match_text: the text stands at pos and no identifier
\* character follows it
_match_text(tk, text) ==
  /\ tk.pos + Len(text) - 1 <= Len(tk.content)
  /\ SubSeq(tk.content, tk.pos, tk.pos + Len(text) - 1) = text
  /\ ~(/\ tk.pos + Len(text) <= Len(tk.content)
       /\ _is_alphanumeric(tk.content[tk.pos + Len(text)]))

\* the keyword _match_keyword_with_state finds at pos, as its text
Keyword(tk) ==
  IF _match_text(tk, <<"S", "I">>) THEN <<"S", "I">>
  ELSE IF _current_char(tk) = "S" /\ ~_is_alphanumeric(_peek_char(tk))
  THEN <<"S">>
  ELSE IF _current_char(tk) = "T" /\ ~_is_alphanumeric(_peek_char(tk))
  THEN <<"T">>
  ELSE IF _match_text(tk, <<"E", "N", "D">>) THEN <<"E", "N", "D">>
  ELSE <<>>

KeywordType(text) ==
  CASE text = <<"S", "I">> -> "SI"
    [] text = <<"S">> -> "S"
    [] text = <<"T">> -> "T"
    [] text = <<"E", "N", "D">> -> "END"

\* called where Keyword(tk) is a keyword
_match_keyword_with_state(tk) ==
  TkAdvance(_emit_token(tk, KeywordType(Keyword(tk)), Keyword(tk)),
            Len(Keyword(tk)))

\* where the identifier that starts at p ends
RECURSIVE NameEnd(_, _)
NameEnd(content, p) ==
  IF p <= Len(content) /\ _is_alphanumeric(content[p])
  THEN NameEnd(content, p + 1)
  ELSE p

\* the tokenizer unchanged where _match_name returns False
_match_name(tk) ==
  IF _current_char(tk) \notin Letters THEN tk
  ELSE [_emit_token(tk, "NAME",
                    SubSeq(tk.content, tk.pos,
                           NameEnd(tk.content, tk.pos) - 1))
          EXCEPT !.pos = NameEnd(tk.content, tk.pos)]

\* the type of the most recent S, SI or T token, "None" for none
RECURSIVE _find_recent_keyword(_)
_find_recent_keyword(toks) ==
  IF toks = <<>> THEN "None"
  ELSE IF toks[Len(toks)].type \in {"S", "SI", "T"} THEN toks[Len(toks)].type
  ELSE _find_recent_keyword(SubSeq(toks, 1, Len(toks) - 1))

\* a capture that does not track the parenthesis depth
RECURSIVE CaptureEndFlat(_, _, _, _)
CaptureEndFlat(content, p, paren_depth, delimiters) ==
  IF p > Len(content) THEN p
  ELSE IF content[p] \in delimiters \/ content[p] = "\n" THEN p
  ELSE CaptureEndFlat(content, p + 1, paren_depth, delimiters)

\* the loop of _capture_until: the position it stops at, from p on
RECURSIVE CaptureEnd(_, _, _, _)
CaptureEnd(content, p, paren_depth, delimiters) ==
  IF p > Len(content) THEN p
  ELSE IF content[p] = "("
  THEN CaptureEnd(content, p + 1, paren_depth + 1, delimiters)
  ELSE IF content[p] = ")"
  THEN (IF paren_depth = 0 /\ ")" \in delimiters THEN p
        ELSE CaptureEnd(content, p + 1, paren_depth - 1, delimiters))
  ELSE IF content[p] \in delimiters /\ paren_depth = 0 THEN p
  ELSE IF content[p] = "\n" THEN p
  ELSE CaptureEnd(content, p + 1, paren_depth, delimiters)

RECURSIVE LStrip(_)
LStrip(s) == IF s # <<>> /\ Head(s) \in Blank THEN LStrip(Tail(s)) ELSE s

RECURSIVE RStrip(_)
RStrip(s) ==
  IF s # <<>> /\ s[Len(s)] \in Blank THEN RStrip(SubSeq(s, 1, Len(s) - 1))
  ELSE s

\* str.strip()
strip(s) == RStrip(LStrip(s))

\* the string _capture_until returns
_capture_until(tk, delimiters) ==
  strip(SubSeq(tk.content, tk.pos,
               CaptureEnd(tk.content, tk.pos, 0, delimiters) - 1))

\* "After @name(, capture action or condition"
Capture(tk) ==
  [_emit_token(tk,
               IF _find_recent_keyword(tk.tokens) \in {"S", "SI"}
               THEN "ACTION"
               ELSE IF _find_recent_keyword(tk.tokens) = "T"
               THEN "CONDITION"
               ELSE "ACTION",
               _capture_until(tk, {",", ")"}))
     EXCEPT !.pos = CaptureEnd(tk.content, tk.pos, 0, {",", ")"}),
            !.state = "NORMAL"]

\* "Expect NAME after @"
NameAfterAt(tk) ==
  IF _match_name(tk) = tk THEN [tk EXCEPT !.outcome = "TokenizeError"]
  ELSE [_match_name(tk) EXCEPT !.state = "AFTER_NAME"]

Scanning == tokenizer.outcome = "running"

\* the tokenizer at the character an iteration of the loop looks at
AtChar == _skip_whitespace_except_newline(tokenizer)

\* the loop of tokenize() ends: the EOF token
TokEnd ==
  /\ Scanning
  /\ TkAtEnd(AtChar)
  /\ tokenizer' = [_emit_token(AtChar, "EOF", <<>>)
                     EXCEPT !.outcome = "returned"]
  /\ UNCHANGED ParserVars

TokNewline ==
  /\ Scanning
  /\ _current_char(AtChar) = "\n"
  /\ tokenizer' = [TkAdvance(_emit_token(AtChar, "NEWLINE", <<"\n">>), 1)
                     EXCEPT !.line_number = @ + 1]
  /\ UNCHANGED ParserVars

TokKeyword ==
  /\ Scanning
  /\ ~TkAtEnd(AtChar)
  /\ _current_char(AtChar) # "\n"
  /\ Keyword(AtChar) # <<>>
  /\ tokenizer' = [_match_keyword_with_state(AtChar)
                     EXCEPT !.state = "AFTER_KEYWORD"]
  /\ UNCHANGED ParserVars

TokAt ==
  /\ Scanning
  /\ _current_char(AtChar) = "@"
  /\ tokenizer' = NameAfterAt(TkAdvance(_emit_token(AtChar, "AT", <<"@">>), 1))
  /\ UNCHANGED ParserVars

TokLParen ==
  /\ Scanning
  /\ _current_char(AtChar) = "("
  /\ tokenizer' =
       IF AtChar.state = "AFTER_NAME"
       THEN Capture(TkAdvance(_emit_token(AtChar, "LPAREN", <<"(">>), 1))
       ELSE TkAdvance(_emit_token(AtChar, "LPAREN", <<"(">>), 1)
  /\ UNCHANGED ParserVars

\* _match_delimiter_except_lparen
TokDelimiter ==
  /\ Scanning
  /\ _current_char(AtChar) \in {")", ","}
  /\ tokenizer' =
       TkAdvance(_emit_token(AtChar,
                             IF _current_char(AtChar) = ")" THEN "RPAREN"
                             ELSE "COMMA",
                             <<_current_char(AtChar)>>), 1)
  /\ UNCHANGED ParserVars

\* "Try to match standalone name"
TokName ==
  /\ Scanning
  /\ _current_char(AtChar) \in Letters
  /\ Keyword(AtChar) = <<>>
  /\ tokenizer' = _match_name(AtChar)
  /\ UNCHANGED ParserVars

TokInit ==
  /\ tokenizer \in {NewTokenizer(content) : content \in Contents}
  /\ tokens = <<>>
  /\ current = 1
  /\ steps = <<>>
  /\ transitions = <<>>
  /\ branches = <<>>
  /\ errors = <<>>
  /\ current_step = NoneRef
  /\ last_parsed_element = NoneRef
  /\ inside_branch = FALSE
  /\ after_convergence = FALSE
  /\ global_id_counter = 0
  /\ diverge_branch = NoBranch
  /\ pc = "file"
  /\ outcome = "running"
  /\ reported = <<>>
  /\ export_pc = "validate"
  /\ validator_errors = <<>>
  /\ _global_id = 0
  /\ sfc_content = <<>>
  /\ _directed_links = <<>>

TokNext ==
  \/ TokEnd
  \/ TokNewline
  \/ TokKeyword
  \/ TokAt
  \/ TokLParen
  \/ TokDelimiter
  \/ TokName

\* QGTokenizer(content).tokenize() on its own
TokSpec == TokInit /\ [][TokNext]_vars

(* ---------------------------------------------------------------------- *)
(* Shape of the state                                                      *)
(* ---------------------------------------------------------------------- *)
TypeOK ==
  /\ pc \in {"file", "branch", "jumps", "validate", "raise", "done"}
  /\ outcome \in {"running", "returned", "ParseError", "AttributeError",
                  "IndexError"}
  /\ current \in 1..Len(tokens)
  /\ (pc = "done") = (outcome # "running")
  /\ export_pc \in {"validate", "build", "done", "L5XExportError"}
  /\ export_pc # "validate" => outcome = "returned"

(* ---------------------------------------------------------------------- *)
(* Vocabulary of the properties                                            *)
(* ---------------------------------------------------------------------- *)
Done == pc = "done"

\* parse() was left by an exception that is no ParseError
Crashed == outcome \in {"AttributeError", "IndexError"}

Messages(errs) == {errs[i].message : i \in 1..Len(errs)}

\* the ParseError raised lists an error with this message about this name
Reports(message, arg) ==
  \E i \in 1..Len(reported) :
     reported[i].message = message /\ reported[i].arg = arg

\* the document holds, at token c, a complete S@name(...) or SI@name(...)
WellFormedStep(c) ==
  /\ c + 5 <= Len(tokens)
  /\ tokens[c].type \in {"SI", "S"}
  /\ tokens[c + 1].type = "AT"
  /\ tokens[c + 2].type = "NAME"
  /\ tokens[c + 3].type = "LPAREN"
  /\ tokens[c + 4].type = "ACTION"
  /\ tokens[c + 5].type = "RPAREN"

\* the document holds, at token c, a complete T@name(...)
WellFormedTransition(c) ==
  /\ c + 5 <= Len(tokens)
  /\ tokens[c].type = "T"
  /\ tokens[c + 1].type = "AT"
  /\ tokens[c + 2].type = "NAME"
  /\ tokens[c + 3].type = "LPAREN"
  /\ tokens[c + 4].type = "CONDITION"
  /\ tokens[c + 5].type = "RPAREN"

\* the names of the steps the document declares
DeclaredStepNames ==
  {tokens[c + 2].value : c \in {d \in 1..Len(tokens) : WellFormedStep(d)}}

\* the document holds, at token c, a declaration without its '@', its '('
\* or its ')'
MissingDelimiter(c) ==
  /\ tokens[c].type \in {"SI", "S", "T"}
  /\ \/ tokens[c + 1].type # "AT"
     \/ tokens[c + 2].type = "NAME" /\ tokens[c + 3].type # "LPAREN"
     \/ /\ tokens[c + 2].type = "NAME"
        /\ tokens[c + 3].type = "LPAREN"
        /\ tokens[c + 4].type \in {"ACTION", "CONDITION"}
        /\ tokens[c + 5].type # "RPAREN"

\* no branch was opened before the element with this id was declared
Outside(id) ==
  /\ diverge_branch = NoBranch \/ id < diverge_branch.id
  /\ \A k \in 1..Len(branches) : id < branches[k].id

\* step i and transition j reference each other, the step first
StepThenTransition(i, j) ==
  /\ TransRef(j) \in Range(steps[i].outgoing_transitions)
  /\ StepRef(i) \in Range(transitions[j].incoming_steps)

\* transition j and step i reference each other, the transition first
TransitionThenStep(j, i) ==
  /\ StepRef(i) \in Range(transitions[j].outgoing_steps)
  /\ TransRef(j) \in Range(steps[i].incoming_transitions)

\* the phase of parse() that records an error with this message
PhaseOf(message) ==
  IF message = "Invalid step reference: not found" THEN "jumps"
  ELSE IF message \in {"No initial step (SI) found",
                       "Transition has no incoming step",
                       "Transition has no outgoing step"}
  THEN "validate"
  ELSE "file"

\* transition j names a jump target no step has
Unresolved(j) ==
  /\ transitions[j].target_name # NoName
  /\ ~InNameToStep(steps, transitions[j].target_name)

ConvergenceErrors == {"Expected convergence to close AND branch",
                      "Expected convergence to close OR branch"}

StructuralErrors == {"OR leg must start with a transition",
                     "OR leg must START with transition, not step",
                     "AND leg must start with a step",
                     "AND leg must START with step, not transition",
                     "AND leg must END with step, not transition"}

\* ids are handed out in source order
IdOf(e) == IF e.kind = "S" THEN steps[e.idx].id ELSE transitions[e.idx].id

FirstInSource(leg) ==
  CHOOSE e \in Range(Elements(leg)) :
     \A f \in Range(Elements(leg)) : IdOf(e) <= IdOf(f)

LastInSource(leg) ==
  CHOOSE e \in Range(Elements(leg)) :
     \A f \in Range(Elements(leg)) : IdOf(f) <= IdOf(e)

\* the leg rules of the two flows
BreaksLegRules(flow_type, leg) ==
  \/ Elements(leg) = <<>>
  \/ flow_type = "OR" /\ FirstInSource(leg).kind # "T"
  \/ flow_type = "AND" /\ FirstInSource(leg).kind # "S"
  \/ flow_type = "AND" /\ LastInSource(leg).kind # "S"

\* every leg of branch b has a last transition, and it names a jump target
EveryLegEndsWithJump(b) ==
  \A l \in 1..Len(b.legs) :
     /\ b.legs[l].transitions # <<>>
     /\ transitions[Last(b.legs[l].transitions).idx].target_name # NoName

(* ---------------------------------------------------------------------- *)
(* Properties                                                              *)
(* ---------------------------------------------------------------------- *)

C2_ExactlyOneInitial ==
  Done =>
    /\ outcome = "returned" =>
          Cardinality({i \in 1..Len(steps) : steps[i].is_initial}) = 1
    /\ (\A c \in 1..Len(tokens) : tokens[c].type # "SI") =>
          /\ outcome = "ParseError"
          /\ "No initial step (SI) found" \in Messages(reported)
    /\ Cardinality({c \in 1..Len(tokens) :
                       WellFormedStep(c) /\ tokens[c].type = "SI"}) >= 2 =>
          /\ outcome = "ParseError"
          /\ "Only one SI allowed" \in Messages(reported)

\* C3: when parse() ends, every Transition has an incoming and an outgoing
\* Step, or else parse() ended in a ParseError that names the Transition.
C3_TransitionsComplete ==
  Done =>
    \A j \in 1..Len(transitions) :
       /\ transitions[j].incoming_steps = <<>> =>
             /\ outcome = "ParseError"
             /\ Reports("Transition has no incoming step",
                        transitions[j].name)
       /\ transitions[j].outgoing_steps = <<>> =>
             /\ outcome = "ParseError"
             /\ Reports("Transition has no outgoing step",
                        transitions[j].name)

\* C4: a Transition with jump target n is linked both ways with the Step
\* named n in the graph returned; if the document declares no Step named n,
\* parse() ends in a ParseError saying that step n was not found.
C4_JumpResolution ==
  Done =>
    \A j \in 1..Len(transitions) :
       transitions[j].target_name # NoName =>
          IF transitions[j].target_name \in DeclaredStepNames
          THEN outcome = "returned" =>
                  \E i \in 1..Len(steps) :
                     /\ steps[i].name = transitions[j].target_name
                     /\ TransitionThenStep(j, i)
          ELSE /\ outcome = "ParseError"
               /\ Reports("Invalid step reference: not found",
                          transitions[j].target_name)

\* C5: the Steps of a returned graph have distinct names and so have its
\* Transitions; a document that declares two Steps, or two Transitions, of
\* one name ends in a ParseError reporting the duplicate name.
C5_UniqueNames ==
  Done =>
    /\ outcome = "returned" =>
          /\ \A i, k \in 1..Len(steps) :
                steps[i].name = steps[k].name => i = k
          /\ \A j, k \in 1..Len(transitions) :
                transitions[j].name = transitions[k].name => j = k
    /\ \A c, d \in 1..Len(tokens) :
          /\ c < d /\ WellFormedStep(c) /\ WellFormedStep(d)
             /\ tokens[c + 2].value = tokens[d + 2].value =>
                /\ outcome = "ParseError"
                /\ Reports("Duplicate step name", tokens[d + 2].value)
          /\ c < d /\ WellFormedTransition(c) /\ WellFormedTransition(d)
             /\ tokens[c + 2].value = tokens[d + 2].value =>
                /\ outcome = "ParseError"
                /\ Reports("Duplicate transition name", tokens[d + 2].value)

\* the errors of a list are in line order, those without a line last
InLineOrder(errs) ==
  \A i, k \in 1..Len(errs) :
     i < k =>
        /\ errs[i].line_number = NoLine => errs[k].line_number = NoLine
        /\ errs[k].line_number # NoLine =>
              errs[i].line_number <= errs[k].line_number

\* two lists hold the same errors, each as often
SameErrors(a, b) ==
  /\ Len(a) = Len(b)
  /\ \A i \in 1..Len(a) :
        Cardinality({k \in 1..Len(a) : a[k] = a[i]})
          = Cardinality({k \in 1..Len(b) : b[k] = a[i]})

C8_MalformedDeclaration ==
  [][pc = "file" /\ MissingDelimiter(SkipFrom(current)) =>
       /\ steps' = steps
       /\ transitions' = transitions
       /\ pc' = "file"
       /\ outcome' = "running"
       /\ "Expected token" \in Messages(errors')]_vars

\* C9: a branch left without its convergence operator records no
\* convergence error if and only if it is an OR branch in which the last
\* transition of every leg names a jump target.
C9_UnclosedBranch ==
  \A k \in 1..Len(branches) :
     /\ branches[k].branch_type = "DIVERGE"
     /\ \A m \in 1..Len(branches) : branches[m].branch_type # "CONVERGE"
     => ((Messages(errors) \cap ConvergenceErrors = {})
           <=> (branches[k].flow_type = "OR"
                  /\ EveryLegEndsWithJump(branches[k])))

\* C10: when the leg loop of a branch has ended, a structural error is
\* recorded exactly when a leg of the branch breaks the leg rules in source
\* order.
C10_LegRules ==
  [][pc = "branch" /\ ~LegLoopRuns =>
       ((\E i \in (Len(errors) + 1)..Len(errors') :
            errors'[i].message \in StructuralErrors)
          <=> (\E l \in 1..Len(diverge_branch.legs) :
                  BreaksLegRules(diverge_branch.flow_type,
                                 diverge_branch.legs[l])))]_vars

\* the element declared right after (d = 1) or right before (d = -1) the
\* operator that made branch b: ids follow the order of the source
DeclaredNextTo(b, d) == b.root # NoneRef /\ IdOf(b.root) = b.id + d

\* the tail of a leg of a CONVERGE branch and the root reference each other
TailLinked(b, leg) ==
  IF b.flow_type = "AND"
  THEN /\ leg.steps # <<>>
       /\ b.root.kind = "T"
       /\ StepThenTransition(Last(leg.steps).idx, b.root.idx)
  ELSE /\ leg.transitions # <<>>
       /\ b.root.kind = "S"
       /\ TransitionThenStep(Last(leg.transitions).idx, b.root.idx)

\* the head of a leg of a DIVERGE branch and the root reference each other
HeadLinked(b, leg) ==
  IF b.flow_type = "AND"
  THEN /\ leg.steps # <<>>
       /\ b.root.kind = "T"
       /\ TransitionThenStep(b.root.idx, leg.steps[1].idx)
  ELSE /\ leg.transitions # <<>>
       /\ b.root.kind = "S"
       /\ StepThenTransition(b.root.idx, leg.transitions[1].idx)

\* the first elements of the legs of a DIVERGE branch
LegHeads(b) ==
  {IF b.flow_type = "AND" THEN b.legs[l].steps[1]
   ELSE b.legs[l].transitions[1] : l \in 1..Len(b.legs)}

C12_DivergeLinking ==
  \A k \in 1..Len(branches) :
     branches[k].branch_type = "DIVERGE" =>
        /\ DeclaredNextTo(branches[k], -1)
        /\ \A l \in 1..Len(branches[k].legs) :
              HeadLinked(branches[k], branches[k].legs[l])
        /\ Cardinality(LegHeads(branches[k])) = Len(branches[k].legs)

\* C12, reached: a graph is returned with an OR DIVERGE branch of two legs
\* whose root Step has exactly the first Transitions of the two legs as
\* outgoing transitions.
C12_Witness ==
  /\ outcome = "returned"
  /\ \E k \in 1..Len(branches) :
        /\ branches[k].branch_type = "DIVERGE"
        /\ branches[k].flow_type = "OR"
        /\ Len(branches[k].legs) = 2
        /\ Len(steps[branches[k].root.idx].outgoing_transitions) = 2
        /\ HeadLinked(branches[k], branches[k].legs[1])
        /\ HeadLinked(branches[k], branches[k].legs[2])

\* e runs from element x to element y, and y does not run back to x
LinkedInOrder(x, y) ==
  IF x.kind = "S"
  THEN /\ StepThenTransition(x.idx, y.idx)
       /\ StepRef(x.idx) \notin Range(transitions[y.idx].outgoing_steps)
  ELSE /\ TransitionThenStep(x.idx, y.idx)
       /\ TransRef(x.idx) \notin Range(steps[y.idx].outgoing_transitions)

\* C13: in every leg of a branch of a returned graph, a Step and a
\* Transition declared one right after the other are linked in the order of
\* the source and not the other way round; so for T@a(..) -> S@b(..) on one
\* line, b is in a.outgoing_steps, a in b.incoming_transitions, and a is no
\* outgoing transition of b.
C13_LegLinking ==
  \A k \in 1..Len(branches) :
     outcome = "returned" /\ branches[k].branch_type = "DIVERGE" =>
        \A l \in 1..Len(branches[k].legs) :
           \A x, y \in Range(Elements(branches[k].legs[l])) :
              x.kind # y.kind /\ IdOf(y) = IdOf(x) + 1 => LinkedInOrder(x, y)

(* ---------------------------------------------------------------------- *)
(* C14, C15: the identities given during one parse                         *)
(* ---------------------------------------------------------------------- *)
\* C14: in a returned graph the operand of the i-th declared Step is i - 1
\* and the operand of the j-th declared Transition is j - 1: each kind is
\* counted from 0 in declaration order, whatever the other kind and the
\* branches took.
C14_OperandsDense ==
  outcome = "returned" =>
    /\ \A i \in 1..Len(steps) : steps[i].operand = i - 1
    /\ \A j \in 1..Len(transitions) : transitions[j].operand = j - 1

\* a returned graph with a branch, two Steps and two Transitions at least
C14_Witness ==
  /\ outcome = "returned"
  /\ branches # <<>>
  /\ Len(steps) >= 2
  /\ Len(transitions) >= 2
  /\ transitions[2].operand = 1
  /\ steps[2].operand = 1

StepAndTransitionIds ==
  {steps[i].id : i \in 1..Len(steps)}
    \cup {transitions[j].id : j \in 1..Len(transitions)}

BranchIds == {branches[k].id : k \in 1..Len(branches)}

\* C15 as stated: in a returned graph the global ids of the Steps and the
\* Transitions together are exactly 0 .. k - 1, k their number.
C15_ElementIdsDense ==
  outcome = "returned" =>
    StepAndTransitionIds = 0..(Len(steps) + Len(transitions) - 1)

\* C15 as the code has it: in a returned graph the global ids of the Steps,
\* the Transitions and the Branches are pairwise different and together
\* exactly 0 .. k - 1, k the number of Steps, Transitions and Branches.
C15_AllIdsDense ==
  outcome = "returned" =>
    /\ StepAndTransitionIds \cup BranchIds
         = 0..(Len(steps) + Len(transitions) + Len(branches) - 1)
    /\ Cardinality(StepAndTransitionIds) = Len(steps) + Len(transitions)
    /\ Cardinality(BranchIds) = Len(branches)
    /\ StepAndTransitionIds \cap BranchIds = {}

\* a returned graph whose branches took identities between those of its
\* Steps and Transitions
C15_Witness ==
  /\ outcome = "returned"
  /\ Len(branches) >= 2
  /\ \E k \in 1..Len(branches) : \E j \in 1..Len(transitions) :
        branches[k].id < transitions[j].id

(* ---------------------------------------------------------------------- *)
(* C16, C17: the shape of a returned graph                                 *)
(* ---------------------------------------------------------------------- *)
NoRepeats(list) ==
  \A i, j \in 1..Len(list) : list[i] = list[j] => i = j

\* C16: in a returned graph no adjacency list of a Step or a Transition
\* holds the same element twice; so a Transition that jumps to the Step
\* that also follows it has that Step once in its outgoing steps.
C16_NoDuplicateLinks ==
  outcome = "returned" =>
    /\ \A i \in 1..Len(steps) :
          /\ NoRepeats(steps[i].incoming_transitions)
          /\ NoRepeats(steps[i].outgoing_transitions)
    /\ \A j \in 1..Len(transitions) :
          /\ NoRepeats(transitions[j].incoming_steps)
          /\ NoRepeats(transitions[j].outgoing_steps)

\* C17: every DIVERGE Branch of a returned graph has two legs at least.
C17_DivergeHasTwoLegs ==
  outcome = "returned" =>
    \A k \in 1..Len(branches) :
       branches[k].branch_type = "DIVERGE" => Len(branches[k].legs) >= 2

(* ---------------------------------------------------------------------- *)
(* C18 .. C20: the junctions and the links of the export                   *)
(* ---------------------------------------------------------------------- *)
Exported == export_pc = "done"

AllElements ==
  {StepRef(i) : i \in 1..Len(steps)}
    \cup {TransRef(j) : j \in 1..Len(transitions)}

\* the adjacency list of e a junction of the given flow is made from
Neighbours(e, flow) ==
  IF e.kind = "S"
  THEN IF flow = "Converge" THEN steps[e.idx].incoming_transitions
       ELSE steps[e.idx].outgoing_transitions
  ELSE IF flow = "Converge" THEN transitions[e.idx].incoming_steps
       ELSE transitions[e.idx].outgoing_steps

JunctionsOf(e, flow) ==
  {k \in 1..Len(sfc_content) :
      sfc_content[k].owner = e /\ sfc_content[k].flow = flow}

\* one leg per neighbour, in the order of the neighbours' identities
LegPerNeighbour(junction, e, flow) ==
  /\ Len(junction.legs) = Cardinality(Range(Neighbours(e, flow)))
  /\ NoRepeats(junction.legs)
  /\ Range(junction.keys) = Range(Neighbours(e, flow))
  /\ \A a, c \in 1..Len(junction.keys) :
        a < c => /\ ElementId(Sfc, junction.keys[a])
                      < ElementId(Sfc, junction.keys[c])
                 /\ junction.legs[a] < junction.legs[c]

\* C18: in an export, an element with k > 1 neighbours on one side has
\* exactly one junction of that side (CONVERGE for the incoming, DIVERGE
\* for the outgoing side), with exactly k legs, one per neighbour, in the
\* order of the neighbours' identities; an element with 0 or 1 neighbour
\* on a side has no junction of that side.
C18_JunctionPerFan ==
  Exported =>
    \A e \in AllElements : \A flow \in {"Converge", "Diverge"} :
       IF Cardinality(Range(Neighbours(e, flow))) > 1
       THEN /\ Cardinality(JunctionsOf(e, flow)) = 1
            /\ \A k \in JunctionsOf(e, flow) :
                  LegPerNeighbour(sfc_content[k], e, flow)
       ELSE JunctionsOf(e, flow) = {}

\* the edge between e and its neighbour x on the given side comes from the
\* AND Branch k: x stands in a leg of the branch and, on the outgoing side,
\* e is the root the branch diverges from
TracesToAnd(k, e, flow, x) ==
  /\ branches[k].branch_type = "DIVERGE"
  /\ branches[k].flow_type = "AND"
  /\ \E l \in 1..Len(branches[k].legs) :
        x \in Range(Elements(branches[k].legs[l]))
  /\ flow = "Diverge" => branches[k].root = e

\* C19: in an export a junction is Simultaneous only when there is one AND
\* Branch of the parse that all the edges of the junction come from; every
\* other junction is a Selection, so a Step with three incoming Transitions
\* from three jumps has one CONVERGE junction of type Selection.
C19_SimultaneousOnlyFromAnd ==
  Exported =>
    \A j \in 1..Len(sfc_content) :
       sfc_content[j].branch_type = "Simultaneous" =>
         \E k \in 1..Len(branches) :
            \A x \in Range(Neighbours(sfc_content[j].owner,
                                       sfc_content[j].flow)) :
               TracesToAnd(k, sfc_content[j].owner, sfc_content[j].flow, x)

LinksFrom(id) ==
  {n \in 1..Len(_directed_links) : _directed_links[n][1] = id}

LinksTo(id) ==
  {n \in 1..Len(_directed_links) : _directed_links[n][2] = id}

\* C20: in the directed links of an export, the identity of every
\* Transition is the source of exactly one link and the target of exactly
\* one link; its fan-in and fan-out go through junctions.
C20_TransitionLinksOneToOne ==
  Exported =>
    \A j \in 1..Len(transitions) :
       /\ Cardinality(LinksFrom(get_transition_id(Sfc, TransRef(j)))) = 1
       /\ Cardinality(LinksTo(get_transition_id(Sfc, TransRef(j)))) = 1

\* an export in which one Transition fans out through a junction and
\* another one fans in through a junction
C20_Witness ==
  /\ Exported
  /\ \E j \in 1..Len(transitions) :
        /\ JunctionsOf(TransRef(j), "Diverge") # {}
        /\ Len(transitions[j].outgoing_steps) = 3
        /\ Cardinality(LinksFrom(get_transition_id(Sfc, TransRef(j)))) = 1
  /\ \E j \in 1..Len(transitions) :
        /\ JunctionsOf(TransRef(j), "Converge") # {}
        /\ Cardinality(LinksTo(get_transition_id(Sfc, TransRef(j)))) = 1

(* ---------------------------------------------------------------------- *)
(* C21, C22: the links of the export as a whole                            *)
(* ---------------------------------------------------------------------- *)
\* C21: the directed links of an export never hold the same (from, to)
\* pair twice.
C21_NoDuplicateDirectedLinks ==
  Exported => NoRepeats(_directed_links)

\* the element an identity of the export stands for: the Step or the
\* Transition itself, or the owner of the junction the identity is the
\* branch or a leg of
NodeOf(id) ==
  IF id < Len(steps) THEN StepRef(id + 1)
  ELSE IF id < Len(steps) + Len(transitions)
  THEN TransRef(id - Len(steps) + 1)
  ELSE sfc_content[CHOOSE k \in 1..Len(sfc_content) :
                      \/ sfc_content[k].id = id
                      \/ id \in Range(sfc_content[k].legs)].owner

\* the links with every junction and its legs collapsed onto its owner;
\* the link between an owner and its own junction disappears
CollapsedLinks ==
  {<<NodeOf(_directed_links[n][1]), NodeOf(_directed_links[n][2])>> :
      n \in 1..Len(_directed_links)}
    \ {<<e, e>> : e \in AllElements}

\* the edges of the graph as its outgoing lists give them
GraphEdges ==
  {<<e, x>> \in AllElements \X AllElements :
      x \in Range(Neighbours(e, "Diverge"))}

\* C22: collapsing every junction and its legs of an export onto the
\* element it was made for gives back exactly the edges of the graph.
C22_LinksRoundTrip ==
  Exported => CollapsedLinks = GraphEdges

\* an export with a junction on each side of some edge, a Diverge leg
\* linked to a Converge leg
C22_Witness ==
  /\ Exported
  /\ CollapsedLinks = GraphEdges
  /\ \E n \in 1..Len(_directed_links) :
        /\ _directed_links[n][1] >= Len(steps) + Len(transitions)
        /\ _directed_links[n][2] >= Len(steps) + Len(transitions)
        /\ NodeOf(_directed_links[n][1]) # NodeOf(_directed_links[n][2])

(* ---------------------------------------------------------------------- *)
(* C23: the token of the arrow                                             *)
(* ---------------------------------------------------------------------- *)
\* C23: the tokenizer gives the operator -> the type JUMP, as it does for
\* >>: no token of a document has the type ARROW, and the leg loop never
\* reports the arrow as an unexpected token.
C23_ArrowIsJump ==
  /\ \A i \in 1..Len(tokens) : tokens[i].type # "ARROW"
  /\ ~Reports("Unexpected token in branch", <<"ARROW", 0>>)

(* ---------------------------------------------------------------------- *)
(* C25: what follows a convergence                                         *)
(* ---------------------------------------------------------------------- *)
\* the Steps that may stand in front of the root Transition of an AND
\* CONVERGE branch: the last Step of each leg
TailSteps(b) == {Last(b.legs[l].steps) : l \in 1..Len(b.legs)}

\* the Transitions that may stand in front of the root Step of an OR
\* CONVERGE branch: the last Transition of each leg, and the Transitions
\* that name the Step as their jump target
TailTransitions(b) ==
  {Last(b.legs[l].transitions) : l \in 1..Len(b.legs)}
    \cup {TransRef(j) : j \in {i \in 1..Len(transitions) :
             transitions[i].target_name = steps[b.root.idx].name}}

\* the root of a CONVERGE branch has nothing in front of it but the tails
RootAfterTailsOnly(b) ==
  /\ b.root # NoneRef
  /\ IF b.root.kind = "T"
     THEN Range(transitions[b.root.idx].incoming_steps) \subseteq TailSteps(b)
     ELSE Range(steps[b.root.idx].incoming_transitions)
            \subseteq TailTransitions(b)

\* the element of the other kind declared right after the root follows it
NextFollowsRoot(b) ==
  \A x \in AllElements :
     x.kind # b.root.kind /\ IdOf(x) = IdOf(b.root) + 1 =>
        IF x.kind = "S" THEN TransitionThenStep(b.root.idx, x.idx)
        ELSE StepThenTransition(b.root.idx, x.idx)

\* C25: in a returned graph the element declared right after a convergence
\* operator has only tails of the legs in front of it, and the declaration
\* right after that element is linked to it as in a plain sequence: the
\* Step after the root Transition of an AND convergence, the Transition
\* after the root Step of an OR convergence.
C25_SuspensionCoversOneElement ==
  outcome = "returned" =>
    \A k \in 1..Len(branches) :
       branches[k].branch_type = "CONVERGE" =>
          /\ RootAfterTailsOnly(branches[k])
          /\ NextFollowsRoot(branches[k])

\* a returned graph with an OR convergence of two legs whose root Step is
\* followed by a Transition, and one with an AND convergence whose root
\* Transition is followed by a Step
C25_Witness ==
  /\ outcome = "returned"
  /\ \E k \in 1..Len(branches) :
        /\ branches[k].branch_type = "CONVERGE"
        /\ Len(branches[k].legs) = 2
        /\ \E x \in AllElements :
              /\ x.kind # branches[k].root.kind
              /\ IdOf(x) = IdOf(branches[k].root) + 1
        /\ NextFollowsRoot(branches[k])

(* ---------------------------------------------------------------------- *)
(* C26: the target of a Transition without a jump                          *)
(* ---------------------------------------------------------------------- *)
\* no branch has the element as its root or in one of its legs
NotOfABranch(e) ==
  \A k \in 1..Len(branches) :
     /\ branches[k].root # e
     /\ \A l \in 1..Len(branches[k].legs) :
           e \notin Range(Elements(branches[k].legs[l]))

\* the Steps declared on a line behind the line of transition j
StepsBehind(j) ==
  {i \in 1..Len(steps) : steps[i].line_number > transitions[j].line_number}

\* C26: when jump resolution has run, a Transition without a jump target
\* that no branch has linked has as outgoing step the Step with the
\* smallest line greater than its own, if there is one; so two Transitions
\* declared one after the other before a Step both run to that Step.
C26_ImplicitNextStep ==
  (/\ Done
   /\ ~Crashed
   /\ \A n \in 1..Len(errors) : PhaseOf(errors[n].message) # "file") =>
    \A j \in 1..Len(transitions) :
       (/\ transitions[j].target_name = NoName
        /\ NotOfABranch(TransRef(j))
        /\ StepsBehind(j) # {}) =>
          \E i \in StepsBehind(j) :
             /\ \A m \in StepsBehind(j) :
                   steps[i].line_number <= steps[m].line_number
             /\ StepRef(i) \in Range(transitions[j].outgoing_steps)

(* ---------------------------------------------------------------------- *)
(* C27 .. C29: the branches and the adjacency of a returned graph          *)
(* ---------------------------------------------------------------------- *)
\* C27: in a returned graph every Leg object belongs to one Branch: no leg
\* of a branch is the same object as a leg of another branch.
C27_LegsNotShared ==
  outcome = "returned" =>
    \A k, m \in 1..Len(branches) :
       k # m =>
          \A l \in 1..Len(branches[k].legs) :
             \A n \in 1..Len(branches[m].legs) :
                branches[k].legs[l].oid # branches[m].legs[n].oid

\* C28: in a returned graph a Transition is an outgoing transition of a
\* Step exactly when the Step is an incoming step of the Transition, and an
\* incoming transition of a Step exactly when the Step is an outgoing step
\* of the Transition; every entry of a Step's lists is a Transition of the
\* graph and every entry of a Transition's lists a Step of the graph.
C28_AdjacencySymmetric ==
  outcome = "returned" =>
    /\ \A i \in 1..Len(steps), j \in 1..Len(transitions) :
          /\ TransRef(j) \in Range(steps[i].outgoing_transitions)
                <=> StepRef(i) \in Range(transitions[j].incoming_steps)
          /\ TransRef(j) \in Range(steps[i].incoming_transitions)
                <=> StepRef(i) \in Range(transitions[j].outgoing_steps)
    /\ \A i \in 1..Len(steps) :
          Range(steps[i].incoming_transitions)
              \cup Range(steps[i].outgoing_transitions)
            \subseteq {TransRef(j) : j \in 1..Len(transitions)}
    /\ \A j \in 1..Len(transitions) :
          Range(transitions[j].incoming_steps)
              \cup Range(transitions[j].outgoing_steps)
            \subseteq {StepRef(i) : i \in 1..Len(steps)}

\* a returned graph with a branch and a resolved jump, whose links were
\* made by the sequence, by the branch and by the jump
C28_Witness ==
  /\ outcome = "returned"
  /\ Len(branches) = 2
  /\ \E j \in 1..Len(transitions) :
        /\ transitions[j].target_name # NoName
        /\ \E i \in 1..Len(steps) :
              /\ steps[i].name = transitions[j].target_name
              /\ StepRef(i) \in Range(transitions[j].outgoing_steps)
              /\ TransRef(j) \in Range(steps[i].incoming_transitions)
  /\ \E i \in 1..Len(steps), j \in 1..Len(transitions) :
        Outside(steps[i].id) /\ Outside(transitions[j].id)
          /\ StepThenTransition(i, j)

\* the branches parse() has made: those stored in self.branches and the
\* DIVERGE branch of the _parse_branch that was running last
MadeBranches ==
  Range(branches)
    \cup (IF diverge_branch = NoBranch THEN {} ELSE {diverge_branch})

\* the root of the branch is an element of the kind its flow asks for
RootMatchesFlow(b) ==
  /\ b.root # NoneRef
  /\ b.root.kind = (IF b.flow_type = "OR" THEN "S" ELSE "T")

\* C29: in a returned graph the root of every OR branch is a Step and the
\* root of every AND branch a Transition; when a divergence operator
\* follows an element of the other kind or no element, parse() ends with a
\* ParseError.
C29_RootMatchesFlow ==
  /\ outcome = "returned" =>
        \A k \in 1..Len(branches) : RootMatchesFlow(branches[k])
  /\ Done =>
        \A b \in MadeBranches :
           b.branch_type = "DIVERGE" /\ ~RootMatchesFlow(b) =>
              outcome = "ParseError"

\* the first half of C29 alone
RootsOfReturnedMatch ==
  outcome = "returned" =>
    \A k \in 1..Len(branches) : RootMatchesFlow(branches[k])

(* ---------------------------------------------------------------------- *)
(* Termination                                                             *)
(* ---------------------------------------------------------------------- *)

\* an iteration of the statement loop or of the leg loop that stays in its
\* loop has consumed a token
LoopStepConsumes ==
  [][(pc \in {"file", "branch"} /\ pc' = pc) => (current' > current)]_vars

\* what parse() has left to do: the phases after the loops, and in the
\* loops the tokens not yet consumed, a running _parse_branch counting less
\* than the statement loop that called it
ParseMeasure ==
  CASE pc = "done" -> 0
    [] pc = "raise" -> 1
    [] pc = "validate" -> 2
    [] pc = "jumps" -> 3
    [] pc = "file" -> 4 + 2 * (Len(tokens) + 1 - current)
    [] pc = "branch" -> 5 + 2 * (Len(tokens) + 1 - current)

\* every step of parse() brings its end nearer: parse() makes no more steps
\* than twice the number of tokens, and a few
ParseTerminates ==
  [][pc # "done" => (ParseMeasure' < ParseMeasure /\ ParseMeasure' >= 0)]_vars

\* the way parse() ends
EndsByReturnOrParseError ==
  pc = "done" => outcome \in {"returned", "ParseError"}

\* C30: parse() terminates on every token stream: every iteration of the
\* statement loop and of the leg loop consumes a token or leaves the loop,
\* and in the end parse() has returned a graph or raised ParseError.
C30_ParseTerminates ==
  /\ LoopStepConsumes
  /\ ParseTerminates
  /\ []EndsByReturnOrParseError

(* ---------------------------------------------------------------------- *)
(* The capture after '('                                                   *)
(* ---------------------------------------------------------------------- *)

\* the position of the character the loop looks at next: the first one from
\* pos on that is no space, tab or carriage return
LooksAt ==
  CHOOSE q \in tokenizer.pos..(Len(tokenizer.content) + 1) :
    /\ \A j \in tokenizer.pos..(q - 1) :
          tokenizer.content[j] \in {" ", "\t", "\r"}
    /\ q <= Len(tokenizer.content) =>
          tokenizer.content[q] \notin {" ", "\t", "\r"}

\* the tokenizer is about to read a '(' that is not inside a captured text
ReadsParen ==
  /\ tokenizer.outcome = "running"
  /\ LooksAt <= Len(tokenizer.content)
  /\ tokenizer.content[LooksAt] = "("

\* the tokens a step of the tokenizer emits
Emitted ==
  SubSeq(tokenizer'.tokens, Len(tokenizer.tokens) + 1,
         Len(tokenizer'.tokens))

\* opening minus closing parentheses of content[a..b]
Balance(content, a, b) ==
  Cardinality({i \in a..b : content[i] = "("})
    - Cardinality({i \in a..b : content[i] = ")"})

Least(S) == CHOOSE i \in S : \A j \in S : i <= j
Greatest(S) == CHOOSE i \in S : \A j \in S : j <= i

\* the first ',' or ')' from a on with as many '(' as ')' between a and it,
\* the end of the text if there is none
FirstDelimiter(content, a) ==
  Least({i \in a..Len(content) :
           content[i] \in {",", ")"} /\ Balance(content, a, i - 1) = 0}
        \cup {Len(content) + 1})

\* the same, or the first newline if that comes before
FirstStop(content, a) ==
  Least({i \in a..Len(content) : content[i] = "\n"}
        \cup {FirstDelimiter(content, a)})

\* s without the blanks at its ends
Trimmed(s) ==
  IF \A i \in 1..Len(s) : s[i] \in Blank THEN <<>>
  ELSE SubSeq(s, Least({i \in 1..Len(s) : s[i] \notin Blank}),
              Greatest({i \in 1..Len(s) : s[i] \notin Blank}))

\* an @ was read, and since then no keyword and no captured text
AfterName(toks) ==
  \E i \in 1..Len(toks) :
     /\ toks[i].type = "AT"
     /\ \A j \in (i + 1)..Len(toks) :
           toks[j].type \notin {"SI", "S", "T", "END", "ACTION", "CONDITION"}

\* the type of the last S, SI or T token, "None" if there is none
LastKeyword(toks) ==
  IF \A i \in 1..Len(toks) : toks[i].type \notin {"S", "SI", "T"}
  THEN "None"
  ELSE toks[Greatest({i \in 1..Len(toks) :
                        toks[i].type \in {"S", "SI", "T"}})].type

Types(toks) == [i \in 1..Len(toks) |-> toks[i].type]

\* C24 as the code has it: a '(' read after an @name, with no keyword and no
\* capture in between, is followed by one token holding the text up to the
\* first ',' or ')' at depth 0, the first newline or the end of the text,
\* without the blanks at its ends; the token is a CONDITION if the last
\* S/SI/T keyword is T and an ACTION otherwise, also when there is no
\* keyword.  Any other '(' gives the LPAREN token alone.
C24_CaptureAfterName ==
  [][ReadsParen =>
       IF AfterName(tokenizer.tokens)
       THEN /\ Types(Emitted) =
                 <<"LPAREN",
                   IF LastKeyword(tokenizer.tokens) = "T" THEN "CONDITION"
                   ELSE "ACTION">>
            /\ Emitted[2].value =
                 Trimmed(SubSeq(tokenizer.content, LooksAt + 1,
                                FirstStop(tokenizer.content, LooksAt + 1) - 1))
            /\ tokenizer'.pos = FirstStop(tokenizer.content, LooksAt + 1)
       ELSE /\ Types(Emitted) = <<"LPAREN">>
            /\ tokenizer'.pos = LooksAt + 1]_vars

\* a CONDITION was captured that holds a nested parenthesis with a comma
\* inside and ends at the ')' that closes the declaration
C24_Witness ==
  /\ tokenizer.outcome = "returned"
  /\ \E i \in 1..(Len(tokenizer.tokens) - 1) :
        /\ tokenizer.tokens[i].type = "CONDITION"
        /\ {"(", ","} \subseteq Range(tokenizer.tokens[i].value)
        /\ tokenizer.tokens[i + 1].type = "RPAREN"

\* C24: on every '(' the tokenizer captures the text up to the first ',' or
\* ')' at depth 0 and emits it as one token, an ACTION if the last S/SI/T
\* keyword is S or SI and a CONDITION otherwise.
C24_CaptureOnEveryParen ==
  [][ReadsParen =>
       /\ Types(Emitted) =
            <<"LPAREN",
              IF LastKeyword(tokenizer.tokens) \in {"S", "SI"} THEN "ACTION"
              ELSE "CONDITION">>
       /\ Emitted[2].value =
            SubSeq(tokenizer.content, LooksAt + 1,
                   FirstDelimiter(tokenizer.content, LooksAt + 1) - 1)]_vars

====
